---- MODULE Spec2Model ----
(***************************************************************************)
(* FerrisKeys: the input-normalization and timed-display-buffer pipeline.  *)
(*                                                                         *)
(* Strings are sequences of characters.  A character is a one-character    *)
(* string; a code point outside ASCII is written "U+XXXX" (its hexadecimal *)
(* code point, and the grave accent is "U+0060"), so                       *)
(* <<"U+21E7", " ", "s", "h", "i", "f", "t">> is the Rust                  *)
(* literal of a shift arrow, a space and the word shift.                   *)
(*                                                                         *)
(* Time (std::time::Instant) is counted in ticks of UnitMs milliseconds.   *)
(* An f32 animation value is the integer number of 2^-27 it equals, and    *)
(* F32Add rounds a sum to the f32 grid as the hardware does.  Widths are   *)
(* whole numbers, which f32 holds exactly.                                 *)
(***************************************************************************)
EXTENDS Integers, Sequences, FiniteSets, TLC

(***************************************************************************)
(* std::str helpers used by the code                                       *)
(***************************************************************************)
LowerAlpha == <<"a", "b", "c", "d", "e", "f", "g", "h", "i", "j", "k", "l", "m",
                "n", "o", "p", "q", "r", "s", "t", "u", "v", "w", "x", "y", "z">>

UpperAlpha == <<"A", "B", "C", "D", "E", "F", "G", "H", "I", "J", "K", "L", "M",
                "N", "O", "P", "Q", "R", "S", "T", "U", "V", "W", "X", "Y", "Z">>

Digits == <<"0", "1", "2", "3", "4", "5", "6", "7", "8", "9">>

\* char::is_whitespace over the characters of the model
WhiteSpace == {" ", "\t", "\n", "\r", "U+000B", "U+000C", "U+0085", "U+00A0", "U+2003", "U+3000"}

IndexIn(c, alphabet) ==
    IF \E i \in 1..Len(alphabet) : alphabet[i] = c
    THEN CHOOSE i \in 1..Len(alphabet) : alphabet[i] = c
    ELSE 0

is_ascii_digit(c) == IndexIn(c, Digits) > 0

is_ascii_alphabetic(c) == IndexIn(c, LowerAlpha) > 0 \/ IndexIn(c, UpperAlpha) > 0

\* the cased letters of the model outside ASCII, lower and upper case
LowerLatin == <<"U+00E0", "U+00E4", "U+00E7", "U+00E8", "U+00E9", "U+00F1", "U+00F6", "U+00FC">>

UpperLatin == <<"U+00C0", "U+00C4", "U+00C7", "U+00C8", "U+00C9", "U+00D1", "U+00D6", "U+00DC">>

\* char::to_ascii_lowercase
LowerChar(c) == IF IndexIn(c, UpperAlpha) > 0 THEN LowerAlpha[IndexIn(c, UpperAlpha)] ELSE c

\* char::to_lowercase, for the letters whose lower case is one character
LowerCharUnicode(c) ==
    IF IndexIn(c, UpperLatin) > 0 THEN LowerLatin[IndexIn(c, UpperLatin)] ELSE LowerChar(c)

\* char::to_uppercase, for the letters whose upper case is one character
UpperChar(c) ==
    CASE IndexIn(c, LowerAlpha) > 0 -> UpperAlpha[IndexIn(c, LowerAlpha)]
      [] IndexIn(c, LowerLatin) > 0 -> UpperLatin[IndexIn(c, LowerLatin)]
      [] OTHER -> c

\* char::to_uppercase: the sharp s becomes two letters
UpperChars(c) == IF c = "U+00DF" THEN <<"S", "S">> ELSE <<UpperChar(c)>>

\* str::to_ascii_lowercase
to_ascii_lowercase(s) == [i \in 1..Len(s) |-> LowerChar(s[i])]

\* str::to_lowercase
to_lowercase(s) == [i \in 1..Len(s) |-> LowerCharUnicode(s[i])]

\* str::to_uppercase
RECURSIVE to_uppercase(_)
to_uppercase(s) ==
    IF s = << >> THEN << >> ELSE UpperChars(Head(s)) \o to_uppercase(Tail(s))

\* str::starts_with
starts_with(s, p) == Len(s) >= Len(p) /\ SubSeq(s, 1, Len(p)) = p

\* &s[n..]
SliceFrom(s, n) == SubSeq(s, n + 1, Len(s))

\* str::contains
contains(s, p) == \E i \in 0..(Len(s) - Len(p)) : SubSeq(s, i + 1, i + Len(p)) = p

\* str::find(' '): the index of the first occurrence counted from 0, or -1 for None
find(s, c) ==
    IF \E i \in 1..Len(s) : s[i] = c
    THEN (CHOOSE i \in 1..Len(s) : s[i] = c /\ \A j \in 1..(i - 1) : s[j] # c) - 1
    ELSE -1

\* str::trim
trim(s) ==
    LET keep == {i \in 1..Len(s) : s[i] \notin WhiteSpace}
    IN  IF keep = {} THEN << >>
        ELSE LET lo == CHOOSE i \in keep : \A j \in keep : i <= j
                 hi == CHOOSE i \in keep : \A j \in keep : i >= j
             IN  SubSeq(s, lo, hi)

RECURSIVE DecimalValue(_)
DecimalValue(s) ==
    IF s = << >> THEN 0
    ELSE 10 * DecimalValue(SubSeq(s, 1, Len(s) - 1)) + (IndexIn(s[Len(s)], Digits) - 1)

U8Max == 255

\* str::parse::<u8>: an optional "+", then one or more ASCII digits, at most 255.
\* The result is the value, or -1 for Err.
parse_u8(s) ==
    LET body == IF Len(s) > 0 /\ s[1] = "+" THEN Tail(s) ELSE s
    IN  IF Len(body) > 0 /\ (\A i \in 1..Len(body) : is_ascii_digit(body[i]))
           /\ DecimalValue(body) <= U8Max
        THEN DecimalValue(body)
        ELSE -1

(***************************************************************************)
(* input/keymap.rs, input/keyboard.rs: label tables                        *)
(***************************************************************************)
normalize_mouse_label(raw) ==
    CASE raw = <<"M", "o", "u", "s", "e", "L", "e", "f", "t">> -> <<"U+F037D", " ", "l", "e", "f", "t">>
      [] raw = <<"M", "o", "u", "s", "e", "R", "i", "g", "h", "t">> -> <<"U+F037D", " ", "r", "i", "g", "h", "t", " ">>
      [] raw = <<"M", "o", "u", "s", "e", "M", "i", "d", "d", "l", "e">> -> <<"U+F037D", " ", "m", "i", "d", "d", "l", "e">>
      [] OTHER -> raw

\* a table in which one raw name leads to another; C16_NormalizationIdempotent
\* tells it from normalize_key_label
normalize_key_label_chained(raw) ==
    CASE raw = <<"P", "e", "r", "i", "o", "d">> -> <<"D", "o", "t">>
      [] raw = <<"D", "o", "t">> -> <<".">>
      [] OTHER -> raw

normalize_key_label(raw) ==
    CASE raw = <<"C", "o", "m", "m", "a">> -> <<",">>
      [] raw \in {<<"P", "e", "r", "i", "o", "d">>, <<"D", "o", "t">>} -> <<".">>
      [] raw = <<"S", "e", "m", "i", "C", "o", "l", "o", "n">> -> <<";">>
      [] raw = <<"C", "o", "l", "o", "n">> -> <<":">>
      [] raw = <<"B", "a", "c", "k", "Q", "u", "o", "t", "e">> -> <<"'">>
      [] raw = <<"A", "p", "o", "s", "t", "r", "o", "p", "h", "e">> -> <<"'">>
      [] raw = <<"M", "i", "n", "u", "s">> -> <<"-">>
      [] raw = <<"E", "q", "u", "a", "l">> -> <<"=">>
      [] raw = <<"S", "l", "a", "s", "h">> -> <<"/">>
      [] raw \in {<<"B", "a", "c", "k", "S", "l", "a", "s", "h">>, <<"I", "n", "t", "l", "B", "a", "c", "k", "s", "l", "a", "s", "h">>} -> <<"\\">>
      [] raw = <<"G", "r", "a", "v", "e">> -> <<"U+0060">>
      [] raw = <<"L", "e", "f", "t", "B", "r", "a", "c", "k", "e", "t">> -> <<"[">>
      [] raw = <<"R", "i", "g", "h", "t", "B", "r", "a", "c", "k", "e", "t">> -> <<"]">>
      [] raw = <<"Q", "u", "o", "t", "e">> -> <<"#">>
      [] raw = <<"S", "p", "a", "c", "e">> -> <<"U+F1050", " ", "s", "p", "a", "c", "e">>
      [] raw \in {<<"R", "e", "t", "u", "r", "n">>, <<"E", "n", "t", "e", "r">>} -> <<"U+F0311", " ", "e", "n", "t", "e", "r">>
      [] raw = <<"T", "a", "b">> -> <<"T", "a", "b">>
      [] raw = <<"B", "a", "c", "k", "s", "p", "a", "c", "e">> -> <<"U+F0B5C", " ", "b", "a", "c", "k">>
      [] raw = <<"E", "s", "c", "a", "p", "e">> -> <<"U+F0206", " ", "e", "s", "c">>
      [] raw \in {<<"S", "h", "i", "f", "t", "L", "e", "f", "t">>, <<"S", "h", "i", "f", "t", "R", "i", "g", "h", "t">>} -> <<"U+21E7", " ", "s", "h", "i", "f", "t">>
      [] raw \in {<<"C", "o", "n", "t", "r", "o", "l", "L", "e", "f", "t">>, <<"C", "o", "n", "t", "r", "o", "l", "R", "i", "g", "h", "t">>} -> <<"U+2303", " ", "c", "o", "n", "t", "r", "o", "l">>
      [] raw \in {<<"A", "l", "t">>, <<"A", "l", "t", "G", "r">>} -> <<"U+2325", " ", "a", "l", "t">>
      [] raw = <<"M", "e", "t", "a">> -> <<"U+E62A">>
      [] raw = <<"U", "p", "A", "r", "r", "o", "w">> -> <<"U+2191">>
      [] raw = <<"D", "o", "w", "n", "A", "r", "r", "o", "w">> -> <<"U+2193">>
      [] raw = <<"L", "e", "f", "t", "A", "r", "r", "o", "w">> -> <<"U+2190">>
      [] raw = <<"R", "i", "g", "h", "t", "A", "r", "r", "o", "w">> -> <<"U+2192">>
      [] raw = <<"D", "e", "l", "e", "t", "e">> -> <<"U+2326", " ", "d", "e", "l">>
      [] raw = <<"I", "n", "s", "e", "r", "t">> -> <<"U+F090", " ", "i", "n", "s">>
      [] raw = <<"H", "o", "m", "e">> -> <<"U+EB06", " ", "h", "o", "m", "e">>
      [] raw = <<"E", "n", "d">> -> <<"U+F4F0", " ", "e", "n", "d">>
      [] raw = <<"P", "a", "g", "e", "U", "p">> -> <<"U+F0795", " ", "p", "g", "u", "p">>
      [] raw = <<"P", "a", "g", "e", "D", "o", "w", "n">> -> <<"U+F0792", " ", "p", "g", "d", "n">>
      [] raw = <<"N", "u", "m", "L", "o", "c", "k">> -> <<"U+F0341", " ", "n", "u", "m", "l", "o", "c", "k">>
      [] raw = <<"S", "c", "r", "o", "l", "l", "L", "o", "c", "k">> -> <<"U+F0E79", " ", "s", "c", "r", "o", "l", "l">>
      [] raw = <<"C", "a", "p", "s", "L", "o", "c", "k">> -> <<"U+21EA", " ", "C", "a", "p", "s">>
      [] raw = <<"P", "r", "i", "n", "t", "S", "c", "r", "e", "e", "n">> -> <<"U+F0E51", " ", "p", "s">>
      [] OTHER -> raw

\* the raw names normalize_key_label has an arm for
KeyTableLabels ==
    {<<"C", "o", "m", "m", "a">>, <<"P", "e", "r", "i", "o", "d">>, <<"D", "o", "t">>,
     <<"S", "e", "m", "i", "C", "o", "l", "o", "n">>, <<"C", "o", "l", "o", "n">>,
     <<"B", "a", "c", "k", "Q", "u", "o", "t", "e">>,
     <<"A", "p", "o", "s", "t", "r", "o", "p", "h", "e">>, <<"M", "i", "n", "u", "s">>,
     <<"E", "q", "u", "a", "l">>, <<"S", "l", "a", "s", "h">>,
     <<"B", "a", "c", "k", "S", "l", "a", "s", "h">>,
     <<"I", "n", "t", "l", "B", "a", "c", "k", "s", "l", "a", "s", "h">>,
     <<"G", "r", "a", "v", "e">>, <<"L", "e", "f", "t", "B", "r", "a", "c", "k", "e", "t">>,
     <<"R", "i", "g", "h", "t", "B", "r", "a", "c", "k", "e", "t">>,
     <<"Q", "u", "o", "t", "e">>, <<"S", "p", "a", "c", "e">>,
     <<"R", "e", "t", "u", "r", "n">>, <<"E", "n", "t", "e", "r">>, <<"T", "a", "b">>,
     <<"B", "a", "c", "k", "s", "p", "a", "c", "e">>, <<"E", "s", "c", "a", "p", "e">>,
     <<"S", "h", "i", "f", "t", "L", "e", "f", "t">>,
     <<"S", "h", "i", "f", "t", "R", "i", "g", "h", "t">>,
     <<"C", "o", "n", "t", "r", "o", "l", "L", "e", "f", "t">>,
     <<"C", "o", "n", "t", "r", "o", "l", "R", "i", "g", "h", "t">>, <<"A", "l", "t">>,
     <<"A", "l", "t", "G", "r">>, <<"M", "e", "t", "a">>,
     <<"U", "p", "A", "r", "r", "o", "w">>, <<"D", "o", "w", "n", "A", "r", "r", "o", "w">>,
     <<"L", "e", "f", "t", "A", "r", "r", "o", "w">>,
     <<"R", "i", "g", "h", "t", "A", "r", "r", "o", "w">>, <<"D", "e", "l", "e", "t", "e">>,
     <<"I", "n", "s", "e", "r", "t">>, <<"H", "o", "m", "e">>, <<"E", "n", "d">>,
     <<"P", "a", "g", "e", "U", "p">>, <<"P", "a", "g", "e", "D", "o", "w", "n">>,
     <<"N", "u", "m", "L", "o", "c", "k">>,
     <<"S", "c", "r", "o", "l", "l", "L", "o", "c", "k">>,
     <<"C", "a", "p", "s", "L", "o", "c", "k">>,
     <<"P", "r", "i", "n", "t", "S", "c", "r", "e", "e", "n">>}

\* the raw names normalize_mouse_label has an arm for
MouseTableLabels ==
    {<<"M", "o", "u", "s", "e", "L", "e", "f", "t">>,
     <<"M", "o", "u", "s", "e", "R", "i", "g", "h", "t">>,
     <<"M", "o", "u", "s", "e", "M", "i", "d", "d", "l", "e">>}

NamedKeys ==
    {"Alt", "AltGr", "Backspace", "CapsLock", "ControlLeft", "ControlRight", "Delete", "DownArrow",
     "End", "Escape", "F1", "F2", "F3", "F4", "F5", "F6",
     "F7", "F8", "F9", "F10", "F11", "F12", "Home", "LeftArrow",
     "MetaLeft", "MetaRight", "PageDown", "PageUp", "Return", "RightArrow", "ShiftLeft", "ShiftRight",
     "Space", "Tab", "UpArrow", "PrintScreen", "ScrollLock", "Pause", "NumLock", "BackQuote",
     "Num1", "Num2", "Num3", "Num4", "Num5", "Num6", "Num7", "Num8",
     "Num9", "Num0", "Minus", "Equal", "KeyQ", "KeyW", "KeyE", "KeyR",
     "KeyT", "KeyY", "KeyU", "KeyI", "KeyO", "KeyP", "LeftBracket", "RightBracket",
     "KeyA", "KeyS", "KeyD", "KeyF", "KeyG", "KeyH", "KeyJ", "KeyK",
     "KeyL", "SemiColon", "Quote", "BackSlash", "IntlBackslash", "KeyZ", "KeyX", "KeyC",
     "KeyV", "KeyB", "KeyN", "KeyM", "Comma", "Dot", "Slash", "Insert",
     "KpReturn", "KpMinus", "KpPlus", "KpMultiply", "KpDivide", "Kp0", "Kp1", "Kp2",
     "Kp3", "Kp4", "Kp5", "Kp6", "Kp7", "Kp8", "Kp9", "KpDelete",
     "Function"}

UnknownKeys ==
    {"Unknown(12)", "Unknown(172)", "Unknown(173)", "Unknown(174)", "Unknown(175)", "Unknown(176)", "Unknown(177)", "Unknown(178)", "Unknown(179)", "Unknown(180)", "Unknown(181)", "Unknown(183)", "Unknown(223)", "Unknown(999)"}

DebugFmt(key) ==
    CASE key = "Alt" -> <<"A", "l", "t">>
      [] key = "AltGr" -> <<"A", "l", "t", "G", "r">>
      [] key = "Backspace" -> <<"B", "a", "c", "k", "s", "p", "a", "c", "e">>
      [] key = "CapsLock" -> <<"C", "a", "p", "s", "L", "o", "c", "k">>
      [] key = "ControlLeft" -> <<"C", "o", "n", "t", "r", "o", "l", "L", "e", "f", "t">>
      [] key = "ControlRight" -> <<"C", "o", "n", "t", "r", "o", "l", "R", "i", "g", "h", "t">>
      [] key = "Delete" -> <<"D", "e", "l", "e", "t", "e">>
      [] key = "DownArrow" -> <<"D", "o", "w", "n", "A", "r", "r", "o", "w">>
      [] key = "End" -> <<"E", "n", "d">>
      [] key = "Escape" -> <<"E", "s", "c", "a", "p", "e">>
      [] key = "F1" -> <<"F", "1">>
      [] key = "F2" -> <<"F", "2">>
      [] key = "F3" -> <<"F", "3">>
      [] key = "F4" -> <<"F", "4">>
      [] key = "F5" -> <<"F", "5">>
      [] key = "F6" -> <<"F", "6">>
      [] key = "F7" -> <<"F", "7">>
      [] key = "F8" -> <<"F", "8">>
      [] key = "F9" -> <<"F", "9">>
      [] key = "F10" -> <<"F", "1", "0">>
      [] key = "F11" -> <<"F", "1", "1">>
      [] key = "F12" -> <<"F", "1", "2">>
      [] key = "Home" -> <<"H", "o", "m", "e">>
      [] key = "LeftArrow" -> <<"L", "e", "f", "t", "A", "r", "r", "o", "w">>
      [] key = "MetaLeft" -> <<"M", "e", "t", "a", "L", "e", "f", "t">>
      [] key = "MetaRight" -> <<"M", "e", "t", "a", "R", "i", "g", "h", "t">>
      [] key = "PageDown" -> <<"P", "a", "g", "e", "D", "o", "w", "n">>
      [] key = "PageUp" -> <<"P", "a", "g", "e", "U", "p">>
      [] key = "Return" -> <<"R", "e", "t", "u", "r", "n">>
      [] key = "RightArrow" -> <<"R", "i", "g", "h", "t", "A", "r", "r", "o", "w">>
      [] key = "ShiftLeft" -> <<"S", "h", "i", "f", "t", "L", "e", "f", "t">>
      [] key = "ShiftRight" -> <<"S", "h", "i", "f", "t", "R", "i", "g", "h", "t">>
      [] key = "Space" -> <<"S", "p", "a", "c", "e">>
      [] key = "Tab" -> <<"T", "a", "b">>
      [] key = "UpArrow" -> <<"U", "p", "A", "r", "r", "o", "w">>
      [] key = "PrintScreen" -> <<"P", "r", "i", "n", "t", "S", "c", "r", "e", "e", "n">>
      [] key = "ScrollLock" -> <<"S", "c", "r", "o", "l", "l", "L", "o", "c", "k">>
      [] key = "Pause" -> <<"P", "a", "u", "s", "e">>
      [] key = "NumLock" -> <<"N", "u", "m", "L", "o", "c", "k">>
      [] key = "BackQuote" -> <<"B", "a", "c", "k", "Q", "u", "o", "t", "e">>
      [] key = "Num1" -> <<"N", "u", "m", "1">>
      [] key = "Num2" -> <<"N", "u", "m", "2">>
      [] key = "Num3" -> <<"N", "u", "m", "3">>
      [] key = "Num4" -> <<"N", "u", "m", "4">>
      [] key = "Num5" -> <<"N", "u", "m", "5">>
      [] key = "Num6" -> <<"N", "u", "m", "6">>
      [] key = "Num7" -> <<"N", "u", "m", "7">>
      [] key = "Num8" -> <<"N", "u", "m", "8">>
      [] key = "Num9" -> <<"N", "u", "m", "9">>
      [] key = "Num0" -> <<"N", "u", "m", "0">>
      [] key = "Minus" -> <<"M", "i", "n", "u", "s">>
      [] key = "Equal" -> <<"E", "q", "u", "a", "l">>
      [] key = "KeyQ" -> <<"K", "e", "y", "Q">>
      [] key = "KeyW" -> <<"K", "e", "y", "W">>
      [] key = "KeyE" -> <<"K", "e", "y", "E">>
      [] key = "KeyR" -> <<"K", "e", "y", "R">>
      [] key = "KeyT" -> <<"K", "e", "y", "T">>
      [] key = "KeyY" -> <<"K", "e", "y", "Y">>
      [] key = "KeyU" -> <<"K", "e", "y", "U">>
      [] key = "KeyI" -> <<"K", "e", "y", "I">>
      [] key = "KeyO" -> <<"K", "e", "y", "O">>
      [] key = "KeyP" -> <<"K", "e", "y", "P">>
      [] key = "LeftBracket" -> <<"L", "e", "f", "t", "B", "r", "a", "c", "k", "e", "t">>
      [] key = "RightBracket" -> <<"R", "i", "g", "h", "t", "B", "r", "a", "c", "k", "e", "t">>
      [] key = "KeyA" -> <<"K", "e", "y", "A">>
      [] key = "KeyS" -> <<"K", "e", "y", "S">>
      [] key = "KeyD" -> <<"K", "e", "y", "D">>
      [] key = "KeyF" -> <<"K", "e", "y", "F">>
      [] key = "KeyG" -> <<"K", "e", "y", "G">>
      [] key = "KeyH" -> <<"K", "e", "y", "H">>
      [] key = "KeyJ" -> <<"K", "e", "y", "J">>
      [] key = "KeyK" -> <<"K", "e", "y", "K">>
      [] key = "KeyL" -> <<"K", "e", "y", "L">>
      [] key = "SemiColon" -> <<"S", "e", "m", "i", "C", "o", "l", "o", "n">>
      [] key = "Quote" -> <<"Q", "u", "o", "t", "e">>
      [] key = "BackSlash" -> <<"B", "a", "c", "k", "S", "l", "a", "s", "h">>
      [] key = "IntlBackslash" -> <<"I", "n", "t", "l", "B", "a", "c", "k", "s", "l", "a", "s", "h">>
      [] key = "KeyZ" -> <<"K", "e", "y", "Z">>
      [] key = "KeyX" -> <<"K", "e", "y", "X">>
      [] key = "KeyC" -> <<"K", "e", "y", "C">>
      [] key = "KeyV" -> <<"K", "e", "y", "V">>
      [] key = "KeyB" -> <<"K", "e", "y", "B">>
      [] key = "KeyN" -> <<"K", "e", "y", "N">>
      [] key = "KeyM" -> <<"K", "e", "y", "M">>
      [] key = "Comma" -> <<"C", "o", "m", "m", "a">>
      [] key = "Dot" -> <<"D", "o", "t">>
      [] key = "Slash" -> <<"S", "l", "a", "s", "h">>
      [] key = "Insert" -> <<"I", "n", "s", "e", "r", "t">>
      [] key = "KpReturn" -> <<"K", "p", "R", "e", "t", "u", "r", "n">>
      [] key = "KpMinus" -> <<"K", "p", "M", "i", "n", "u", "s">>
      [] key = "KpPlus" -> <<"K", "p", "P", "l", "u", "s">>
      [] key = "KpMultiply" -> <<"K", "p", "M", "u", "l", "t", "i", "p", "l", "y">>
      [] key = "KpDivide" -> <<"K", "p", "D", "i", "v", "i", "d", "e">>
      [] key = "Kp0" -> <<"K", "p", "0">>
      [] key = "Kp1" -> <<"K", "p", "1">>
      [] key = "Kp2" -> <<"K", "p", "2">>
      [] key = "Kp3" -> <<"K", "p", "3">>
      [] key = "Kp4" -> <<"K", "p", "4">>
      [] key = "Kp5" -> <<"K", "p", "5">>
      [] key = "Kp6" -> <<"K", "p", "6">>
      [] key = "Kp7" -> <<"K", "p", "7">>
      [] key = "Kp8" -> <<"K", "p", "8">>
      [] key = "Kp9" -> <<"K", "p", "9">>
      [] key = "KpDelete" -> <<"K", "p", "D", "e", "l", "e", "t", "e">>
      [] key = "Function" -> <<"F", "u", "n", "c", "t", "i", "o", "n">>
      [] key = "Unknown(12)" -> <<"U", "n", "k", "n", "o", "w", "n", "(", "1", "2", ")">>
      [] key = "Unknown(172)" -> <<"U", "n", "k", "n", "o", "w", "n", "(", "1", "7", "2", ")">>
      [] key = "Unknown(173)" -> <<"U", "n", "k", "n", "o", "w", "n", "(", "1", "7", "3", ")">>
      [] key = "Unknown(174)" -> <<"U", "n", "k", "n", "o", "w", "n", "(", "1", "7", "4", ")">>
      [] key = "Unknown(175)" -> <<"U", "n", "k", "n", "o", "w", "n", "(", "1", "7", "5", ")">>
      [] key = "Unknown(176)" -> <<"U", "n", "k", "n", "o", "w", "n", "(", "1", "7", "6", ")">>
      [] key = "Unknown(177)" -> <<"U", "n", "k", "n", "o", "w", "n", "(", "1", "7", "7", ")">>
      [] key = "Unknown(178)" -> <<"U", "n", "k", "n", "o", "w", "n", "(", "1", "7", "8", ")">>
      [] key = "Unknown(179)" -> <<"U", "n", "k", "n", "o", "w", "n", "(", "1", "7", "9", ")">>
      [] key = "Unknown(180)" -> <<"U", "n", "k", "n", "o", "w", "n", "(", "1", "8", "0", ")">>
      [] key = "Unknown(181)" -> <<"U", "n", "k", "n", "o", "w", "n", "(", "1", "8", "1", ")">>
      [] key = "Unknown(183)" -> <<"U", "n", "k", "n", "o", "w", "n", "(", "1", "8", "3", ")">>
      [] key = "Unknown(223)" -> <<"U", "n", "k", "n", "o", "w", "n", "(", "2", "2", "3", ")">>
      [] OTHER -> <<"U", "n", "k", "n", "o", "w", "n", "(", "9", "9", "9", ")">>

resolve_us_label(key) ==
    CASE key = "Num1" -> <<"!">>
      [] key = "Num2" -> <<"@">>
      [] key = "Num3" -> <<"#">>
      [] key = "Num4" -> <<"$">>
      [] key = "Num5" -> <<"%">>
      [] key = "Num6" -> <<"^">>
      [] key = "Num7" -> <<"&">>
      [] key = "Num8" -> <<"*">>
      [] key = "Num9" -> <<"(">>
      [] key = "Num0" -> <<")">>
      [] key = "Minus" -> <<"_">>
      [] key = "Equal" -> <<"+">>
      [] key = "BackQuote" -> <<"~">>
      [] key = "Quote" -> <<"\"">>
      [] key \in {"BackSlash", "IntlBackslash"} -> <<"|">>
      [] OTHER -> normalize_key_label(DebugFmt(key))

resolve_uk_label(key) ==
    CASE key = "Num1" -> <<"!">>
      [] key = "Num2" -> <<"\"">>
      [] key = "Num3" -> <<"U+00A3">>
      [] key = "Num4" -> <<"$">>
      [] key = "Num5" -> <<"%">>
      [] key = "Num6" -> <<"^">>
      [] key = "Num7" -> <<"&">>
      [] key = "Num8" -> <<"*">>
      [] key = "Num9" -> <<"(">>
      [] key = "Num0" -> <<")">>
      [] key = "Minus" -> <<"_">>
      [] key = "Equal" -> <<"+">>
      [] key = "Quote" -> <<"\"">>
      [] key \in {"BackSlash", "IntlBackslash"} -> <<"|">>
      [] OTHER -> normalize_key_label(DebugFmt(key))

resolve_physical_key(key) ==
    CASE key = "KeyA" -> <<"A">>
      [] key = "KeyB" -> <<"B">>
      [] key = "KeyC" -> <<"C">>
      [] key = "KeyD" -> <<"D">>
      [] key = "KeyE" -> <<"E">>
      [] key = "KeyF" -> <<"F">>
      [] key = "KeyG" -> <<"G">>
      [] key = "KeyH" -> <<"H">>
      [] key = "KeyI" -> <<"I">>
      [] key = "KeyJ" -> <<"J">>
      [] key = "KeyK" -> <<"K">>
      [] key = "KeyL" -> <<"L">>
      [] key = "KeyM" -> <<"M">>
      [] key = "KeyN" -> <<"N">>
      [] key = "KeyO" -> <<"O">>
      [] key = "KeyP" -> <<"P">>
      [] key = "KeyQ" -> <<"Q">>
      [] key = "KeyR" -> <<"R">>
      [] key = "KeyS" -> <<"S">>
      [] key = "KeyT" -> <<"T">>
      [] key = "KeyU" -> <<"U">>
      [] key = "KeyV" -> <<"V">>
      [] key = "KeyW" -> <<"W">>
      [] key = "KeyX" -> <<"X">>
      [] key = "KeyY" -> <<"Y">>
      [] key = "KeyZ" -> <<"Z">>
      [] key = "Num1" -> <<"1">>
      [] key = "Num2" -> <<"2">>
      [] key = "Num3" -> <<"3">>
      [] key = "Num4" -> <<"4">>
      [] key = "Num5" -> <<"5">>
      [] key = "Num6" -> <<"6">>
      [] key = "Num7" -> <<"7">>
      [] key = "Num8" -> <<"8">>
      [] key = "Num9" -> <<"9">>
      [] key = "Num0" -> <<"0">>
      [] key = "Kp0" -> <<"0">>
      [] key = "Kp1" -> <<"1">>
      [] key = "Kp2" -> <<"2">>
      [] key = "Kp3" -> <<"3">>
      [] key = "Kp4" -> <<"4">>
      [] key = "Kp5" -> <<"5">>
      [] key = "Kp6" -> <<"6">>
      [] key = "Kp7" -> <<"7">>
      [] key = "Kp8" -> <<"8">>
      [] key = "Kp9" -> <<"9">>
      [] key = "KpPlus" -> <<"+">>
      [] key = "KpDivide" -> <<"/">>
      [] key = "KpMinus" -> <<"-">>
      [] key = "KpMultiply" -> <<"*">>
      [] key = "KpReturn" -> <<"E", "n", "t", "e", "r">>
      [] key = "KpDelete" -> <<"D", "o", "t">>
      [] key = "Return" -> <<"E", "n", "t", "e", "r">>
      [] key = "Tab" -> <<"T", "a", "b">>
      [] key = "Escape" -> <<"E", "s", "c", "a", "p", "e">>
      [] key = "Backspace" -> <<"B", "a", "c", "k", "s", "p", "a", "c", "e">>
      [] key = "Space" -> <<"S", "p", "a", "c", "e">>
      [] key \in {"ShiftLeft", "ShiftRight"} -> <<"U+21E7", " ", "s", "h", "i", "f", "t">>
      [] key \in {"ControlLeft", "ControlRight"} -> <<"U+2303", " ", "c", "o", "n", "t", "r", "o", "l">>
      [] key \in {"Alt", "AltGr"} -> <<"U+2325", " ", "a", "l", "t">>
      [] key \in {"MetaLeft", "MetaRight"} -> <<"U+E62A", " ", "M", "e", "t", "a">>
      [] key = "CapsLock" -> <<"U+21EA", " ", "C", "a", "p", "s">>
      [] key = "F1" -> <<"F", "1">>
      [] key = "F2" -> <<"F", "2">>
      [] key = "F3" -> <<"F", "3">>
      [] key = "F4" -> <<"F", "4">>
      [] key = "F5" -> <<"F", "5">>
      [] key = "F6" -> <<"F", "6">>
      [] key = "F7" -> <<"F", "7">>
      [] key = "F8" -> <<"F", "8">>
      [] key = "F9" -> <<"F", "9">>
      [] key = "F10" -> <<"F", "1", "0">>
      [] key = "F11" -> <<"F", "1", "1">>
      [] key = "F12" -> <<"F", "1", "2">>
      [] key = "Minus" -> <<"-">>
      [] key = "Equal" -> <<"=">>
      [] key = "LeftBracket" -> <<"L", "e", "f", "t", "B", "r", "a", "c", "k", "e", "t">>
      [] key = "RightBracket" -> <<"R", "i", "g", "h", "t", "B", "r", "a", "c", "k", "e", "t">>
      [] key = "BackSlash" -> <<"B", "a", "c", "k", "S", "l", "a", "s", "h">>
      [] key = "SemiColon" -> <<"S", "e", "m", "i", "C", "o", "l", "o", "n">>
      [] key = "BackQuote" -> <<"B", "a", "c", "k", "Q", "u", "o", "t", "e">>
      [] key = "Quote" -> <<"Q", "u", "o", "t", "e">>
      [] key = "Comma" -> <<"C", "o", "m", "m", "a">>
      [] key = "Dot" -> <<"P", "e", "r", "i", "o", "d">>
      [] key = "Slash" -> <<"S", "l", "a", "s", "h">>
      [] key = "Insert" -> <<"I", "n", "s", "e", "r", "t">>
      [] key = "Delete" -> <<"D", "e", "l", "e", "t", "e">>
      [] key = "Home" -> <<"H", "o", "m", "e">>
      [] key = "End" -> <<"E", "n", "d">>
      [] key = "PageUp" -> <<"P", "a", "g", "e", "U", "p">>
      [] key = "PageDown" -> <<"P", "a", "g", "e", "D", "o", "w", "n">>
      [] key = "UpArrow" -> <<"U", "p", "A", "r", "r", "o", "w">>
      [] key = "DownArrow" -> <<"D", "o", "w", "n", "A", "r", "r", "o", "w">>
      [] key = "LeftArrow" -> <<"L", "e", "f", "t", "A", "r", "r", "o", "w">>
      [] key = "RightArrow" -> <<"R", "i", "g", "h", "t", "A", "r", "r", "o", "w">>
      [] key = "Unknown(12)" -> <<>>
      [] key = "Unknown(172)" -> <<"U+F02DC", " ", "h", "o", "m", "e">>
      [] key = "Unknown(173)" -> <<"U+F0581", " ", "m", "u", "t", "e">>
      [] key = "Unknown(174)" -> <<"U+F075E", " ", "v", "o", "l", "-">>
      [] key = "Unknown(175)" -> <<"U+F075D", " ", "v", "o", "l", "+">>
      [] key = "Unknown(176)" -> <<"U+F04AD", " ", "n", "e", "x", "t">>
      [] key = "Unknown(177)" -> <<"U+F04AE", " ", "p", "r", "e", "v">>
      [] key = "Unknown(178)" -> <<"U+F04D", " ", "s", "t", "o", "p">>
      [] key = "Unknown(179)" -> <<"U+F040E", " ", "p", "l", "a", "y">>
      [] key = "Unknown(180)" -> <<"U+EB1C", " ", "m", "a", "i", "l">>
      [] key = "Unknown(181)" -> <<"U+F075A", " ", "f", "n">>
      [] key = "Unknown(183)" -> <<"U+F03CB", " ", "A", "p", "p">>
      [] key = "Unknown(223)" -> <<"U+0060">>
      [] key \in UnknownKeys -> <<"U+F0633", " ">> \o DebugFmt(key)
      [] OTHER -> DebugFmt(key)


MouseLabels ==
    {<<"U+F037D">>, <<"l", "e", "f", "t">>, <<"r", "i", "g", "h", "t">>, <<"m", "i", "d", "d", "l", "e">>}

EscapeLabels ==
    {<<"m", "e", "t", "a">>, <<"e", "s", "c">>, <<"e", "s", "c", "a", "p", "e">>, <<"U+F0206", " ", "e", "s", "c">>}

ModifierLabels ==
    {<<"c", "t", "r", "l">>, <<"c", "o", "n", "t", "r", "o", "l">>, <<"U+2303", " ", "c", "o", "n", "t", "r", "o", "l">>, <<"s", "h", "i", "f", "t">>,
     <<"U+21E7", " ", "s", "h", "i", "f", "t">>, <<"a", "l", "t">>, <<"U+2325", " ", "a", "l", "t">>, <<"t", "a", "b">>,
     <<"n", "u", "m">>, <<"n", "u", "m", "l", "o", "c", "k">>, <<"c", "a", "p", "s">>}

EditorLabels ==
    {<<"U+F0E51">>, <<"p", "s">>, <<"b", "a", "c", "k", "s", "p", "a", "c", "e">>, <<"d", "e", "l", "e", "t", "e">>,
     <<"d", "e", "l">>, <<"b", "a", "c", "k">>, <<"i", "n", "s">>, <<"i", "n", "s", "e", "r", "t">>}

NavigationLabels ==
    {<<"U+2191">>, <<"U+2193">>, <<"U+2190">>, <<"U+2192">>}

ScrollableLabels ==
    {<<"h", "o", "m", "e">>, <<"e", "n", "d">>, <<"p", "a", "g", "e", "u", "p">>, <<"p", "a", "g", "e", "d", "o", "w", "n">>,
     <<"p", "g", "u", "p">>, <<"p", "g", "d", "n">>, <<"s", "c", "r", "o", "l", "l">>, <<"s", "c", "r", "o", "l", "l", "o", "c", "k">>}

SpaceLabels ==
    {<<"s", "p", "a", "c", "e">>, <<"U+F1050", " ", "s", "p", "a", "c", "e">>}

SymbolLabels ==
    {<<"{">>, <<"}">>, <<"<">>, <<">">>,
     <<"|">>, <<"U+00A3">>, <<"$">>, <<"%">>,
     <<"^">>, <<"&">>, <<"_">>, <<"U+00AC">>,
     <<"#">>, <<"U+0060">>, <<"(">>, <<")">>,
     <<"@">>, <<"+">>, <<"-">>, <<"=">>,
     <<"*">>, <<"\\">>, <<"/">>, <<",">>,
     <<".">>, <<";">>, <<":">>, <<"!">>,
     <<"'">>, <<"[">>, <<"]">>, <<"?">>,
     <<"~">>, <<"\"">>}

AltFunctionKeywords ==
    {<<"v", "o", "l">>, <<"m", "u", "t", "e">>, <<"p", "l", "a", "y">>, <<"p", "r", "e", "v">>, <<"n", "e", "x", "t">>, <<"s", "t", "o", "p">>, <<"f", "n">>, <<"w", "e", "b">>, <<"m", "a", "i", "l">>, <<"a", "p", "p">>, <<"h", "o", "m", "e">>}

(***************************************************************************)
(* input/keymap.rs: category_for_key                                       *)
(***************************************************************************)
KeyCategory == {"Escape", "Normal", "Numeric", "Modifier", "Editor", "Navigation", "Scrollable",
                "Space", "Symbol", "Unknown", "Function", "AltFunction", "Mouse"}

FunctionKeyMin == 1

FunctionKeyMax == 24

\* a classifier whose function-key range starts at 0; C17_ClassifierTotal
\* tells it from category_for_key
category_for_key_from_zero(key) ==
    LET k == to_ascii_lowercase(key)
    IN  CASE k \in MouseLabels -> "Mouse"
          [] k \in EscapeLabels -> "Escape"
          [] k \in ModifierLabels -> "Modifier"
          [] k \in EditorLabels -> "Editor"
          [] k \in NavigationLabels -> "Navigation"
          [] k \in ScrollableLabels -> "Scrollable"
          [] k \in SpaceLabels -> "Space"
          [] k \in SymbolLabels -> "Symbol"
          [] starts_with(k, <<"f">>)
             /\ parse_u8(SliceFrom(k, 1)) >= 0
             /\ parse_u8(SliceFrom(k, 1)) <= FunctionKeyMax -> "Function"
          [] \E w \in AltFunctionKeywords : contains(k, w) -> "AltFunction"
          [] \A i \in 1..Len(k) : is_ascii_digit(k[i]) -> "Numeric"
          [] \A i \in 1..Len(k) : is_ascii_alphabetic(k[i]) -> "Normal"
          [] OTHER -> "Unknown"

\* a classifier that tries the media keywords before the named tables;
\* C18_FirstMatchingRule tells it from category_for_key
category_for_key_keywords_first(key) ==
    LET k == to_ascii_lowercase(key)
    IN  CASE \E w \in AltFunctionKeywords : contains(k, w) -> "AltFunction"
          [] k \in MouseLabels -> "Mouse"
          [] k \in EscapeLabels -> "Escape"
          [] k \in ModifierLabels -> "Modifier"
          [] k \in EditorLabels -> "Editor"
          [] k \in NavigationLabels -> "Navigation"
          [] k \in ScrollableLabels -> "Scrollable"
          [] k \in SpaceLabels -> "Space"
          [] k \in SymbolLabels -> "Symbol"
          [] starts_with(k, <<"f">>)
             /\ parse_u8(SliceFrom(k, 1)) >= FunctionKeyMin
             /\ parse_u8(SliceFrom(k, 1)) <= FunctionKeyMax -> "Function"
          [] \A i \in 1..Len(k) : is_ascii_digit(k[i]) -> "Numeric"
          [] \A i \in 1..Len(k) : is_ascii_alphabetic(k[i]) -> "Normal"
          [] OTHER -> "Unknown"

category_for_key(key) ==
    LET k == to_ascii_lowercase(key)
    IN  CASE k \in MouseLabels -> "Mouse"
          [] k \in EscapeLabels -> "Escape"
          [] k \in ModifierLabels -> "Modifier"
          [] k \in EditorLabels -> "Editor"
          [] k \in NavigationLabels -> "Navigation"
          [] k \in ScrollableLabels -> "Scrollable"
          [] k \in SpaceLabels -> "Space"
          [] k \in SymbolLabels -> "Symbol"
          [] starts_with(k, <<"f">>)
             /\ parse_u8(SliceFrom(k, 1)) >= FunctionKeyMin
             /\ parse_u8(SliceFrom(k, 1)) <= FunctionKeyMax -> "Function"
          [] \E w \in AltFunctionKeywords : contains(k, w) -> "AltFunction"
          [] \A i \in 1..Len(k) : is_ascii_digit(k[i]) -> "Numeric"
          [] \A i \in 1..Len(k) : is_ascii_alphabetic(k[i]) -> "Normal"
          [] OTHER -> "Unknown"

(***************************************************************************)
(* config/config.rs: styles                                                *)
(***************************************************************************)
MkStyle(w, h, icon, text, bg, fg) ==
    [width |-> w, height |-> h, icon_size |-> icon, text_size |-> text,
     bg_color |-> bg, fg_color |-> fg]

fallback_style == MkStyle(90, 90, 0, 24, "#3c3c3c", "#ffffff")

fallback_styles ==
    [c \in KeyCategory |->
        CASE c = "Normal"      -> MkStyle(90, 90, 0, 20, "#1e1e30", "#ffffff")
          [] c = "Modifier"    -> MkStyle(120, 90, 25, 18, "#32283c", "#ffffff")
          [] c = "Editor"      -> MkStyle(90, 90, 18, 22, "#3f2e2e", "#ffffff")
          [] c = "Navigation"  -> MkStyle(90, 90, 20, 22, "#2e3f2e", "#ffffff")
          [] c = "Scrollable"  -> MkStyle(90, 90, 20, 22, "#2e3f2e", "#ffffff")
          [] c = "Numeric"     -> MkStyle(90, 90, 0, 24, "#2e2e2e", "#ffffff")
          [] c = "Symbol"      -> MkStyle(90, 90, 20, 24, "#3c2e2e", "#ffffff")
          [] c = "Space"       -> MkStyle(260, 90, 20, 28, "#888888", "#ffffff")
          [] c = "Escape"      -> MkStyle(90, 90, 20, 22, "#AA1111", "#ffffff")
          [] c = "Unknown"     -> MkStyle(90, 90, 14, 22, "#555555", "#ffffff")
          [] c = "Function"    -> MkStyle(90, 90, 14, 22, "#001155", "#ffffff")
          [] c = "AltFunction" -> MkStyle(90, 90, 14, 22, "#004488", "#ffffff")
          [] c = "Mouse"       -> MkStyle(90, 90, 0, 24, "#801155", "#ffffff")]

DefaultTimeoutMs == 1200

\* A configuration file as Config::load reads it: the [styles] tables it
\* holds (already parsed) and its timeout_ms, or -1 when it has none.
NoFile == [styles |-> << >>, timeout_ms |-> -1]

\* Config::load
ConfigLoad(file) ==
    [styles |-> [c \in KeyCategory |->
                    IF c \in DOMAIN file.styles THEN file.styles[c] ELSE fallback_styles[c]],
     timeout_ms |-> IF file.timeout_ms >= 0 THEN file.timeout_ms ELSE DefaultTimeoutMs]

(***************************************************************************)
(* Clock and f32                                                           *)
(***************************************************************************)
\* milliseconds in one tick of the model's clock
TickMs == 100

\* Duration between two instants, in milliseconds
Ms(ticks) == ticks * TickMs

\* Duration::from_secs(1)
ExpiryMs == 1000

\* Duration::from_millis(250)
DebounceMs == 250

\* 0.8f32, 0.1f32 and 1.0f32 in units of 2^-27
AnimStart == 107374184

AnimStep == 13421773

AnimFull == 134217728

\* The spacing of f32 values around x (x in units of 2^-27, x >= 2^-3)
RECURSIVE F32Grid(_, _)
F32Grid(x, g) == IF x < g * 16777216 THEN g ELSE F32Grid(x, 2 * g)

\* f32 addition: the exact sum rounded to the nearest f32, ties to even
F32Add(a, b) ==
    LET x    == a + b
        g    == F32Grid(x, 1)
        down == (x \div g) * g
        rest == x - down
    IN  IF 2 * rest < g THEN down
        ELSE IF 2 * rest > g THEN down + g
        ELSE IF (down \div g) % 2 = 0 THEN down ELSE down + g

(***************************************************************************)
(* ui/ui.rs: KeyBuffer                                                     *)
(***************************************************************************)
\* struct KeyEntry.  The fields pushed and born are not in the struct: they
\* remember the label push_key was called with when it created the entry and
\* the instant it did, for the properties that speak of "the entry created by
\* push_key(L)" and of the order of insertion.  No operation reads them.
KeyEntry(icon, label, anim, time, pushed) ==
    [icon |-> icon, label |-> label, anim |-> anim, time |-> time,
     pushed |-> pushed, born |-> time]

\* push_key: strip known key prefixes
StripPrefix(raw) ==
    CASE starts_with(raw, <<"K", "e", "y">>) -> SliceFrom(raw, 3)
      [] starts_with(raw, <<"N", "u", "m">>)
         /\ Len(raw) = 4
         /\ (\A i \in 4..Len(raw) : is_ascii_digit(raw[i])) -> SliceFrom(raw, 3)
      [] OTHER -> raw

\* push_key: split icon and label at the first space (split_at keeps the
\* space with the second part), then trim both
SplitIconText(label) ==
    LET space_idx == find(label, " ")
    IN  IF space_idx >= 0
        THEN [icon |-> trim(SubSeq(label, 1, space_idx)),
              text |-> trim(SliceFrom(label, space_idx))]
        ELSE [icon |-> << >>, text |-> trim(label)]

\* push_key: labels that start with f or F are upper-cased
FormatLabel(label_clean) ==
    IF starts_with(to_lowercase(label_clean), <<"f">>)
    THEN to_uppercase(label_clean)
    ELSE label_clean

\* push_key: the entry that a label which is not found creates
NewEntry(label, mouse, t) ==
    LET raw   == IF ~mouse THEN normalize_key_label(label) ELSE normalize_mouse_label(label)
        parts == SplitIconText(StripPrefix(raw))
    IN  KeyEntry(parts.icon, FormatLabel(parts.text), AnimStart, t, label)

\* push_key: iter_mut().find(|k| k.label == label), 0 for None
FindLabel(ks, label) ==
    IF \E i \in 1..Len(ks) : ks[i].label = label
    THEN CHOOSE i \in 1..Len(ks) :
            ks[i].label = label /\ \A j \in 1..(i - 1) : ks[j].label # label
    ELSE 0

\* a push_key that moves the entry it refreshes to the back of the buffer;
\* C5_KeepsMostRecentlyInserted tells it from push_key
push_key_to_back(ks, label, mouse, t) ==
    LET existing == FindLabel(ks, label)
    IN  IF existing > 0
        THEN Append(SubSeq(ks, 1, existing - 1) \o SubSeq(ks, existing + 1, Len(ks)),
                    [ks[existing] EXCEPT !.time = t, !.anim = AnimStart])
        ELSE Append(ks, NewEntry(label, mouse, t))

\* a push_key that drops a label whose text is empty;
\* C23_EmptyTextOccupiesSlot tells it from push_key
push_key_skips_empty(ks, label, mouse, t) ==
    LET existing == FindLabel(ks, label)
    IN  IF existing > 0
        THEN [ks EXCEPT ![existing] = [@ EXCEPT !.time = t, !.anim = AnimStart]]
        ELSE IF NewEntry(label, mouse, t).label = << >> THEN ks
        ELSE Append(ks, NewEntry(label, mouse, t))

\* KeyBuffer::push_key at instant t
push_key(ks, label, mouse, t) ==
    LET existing == FindLabel(ks, label)
    IN  IF existing > 0
        THEN [ks EXCEPT ![existing] = [@ EXCEPT !.time = t, !.anim = AnimStart]]
        ELSE Append(ks, NewEntry(label, mouse, t))

Padding == 8

\* a retain that keeps an entry at the age of exactly one second;
\* C3_ExpiryAfterRender tells it from Retain
RetainInclusive(ks, t) == SelectSeq(ks, LAMBDA k : Ms(t - k.time) <= ExpiryMs)

\* a retain that expires nothing; C26_BufferDrains tells it from Retain
RetainAll(ks, t) == ks

\* render: retain(|k| now.duration_since(k.time) < Duration::from_secs(1))
Retain(ks, t) == SelectSeq(ks, LAMBDA k : Ms(t - k.time) < ExpiryMs)

\* render: the style of an entry's category, or the fallback style
StyleOf(styles, label) ==
    LET category == category_for_key(label)
    IN  IF category \in DOMAIN styles THEN styles[category] ELSE fallback_style

\* a scan that tests the running total before it adds the entry's width;
\* C4_RetainedWidthWithinBudget tells it from FitScan
RECURSIVE FitScanLate(_, _, _, _, _)
FitScanLate(ks, styles, max_width, i, total_width) ==
    IF i = 0 THEN 0
    ELSE LET width == StyleOf(styles, ks[i].label).width + Padding
         IN  IF total_width > max_width THEN 0
             ELSE 1 + FitScanLate(ks, styles, max_width, i - 1, total_width + width)

\* a scan that rejects an entry which fills the width exactly;
\* C6_RetainsFloorOfWidth tells it from FitScan
RECURSIVE FitScanTight(_, _, _, _, _)
FitScanTight(ks, styles, max_width, i, total_width) ==
    IF i = 0 THEN 0
    ELSE LET width == StyleOf(styles, ks[i].label).width + Padding
         IN  IF total_width + width >= max_width THEN 0
             ELSE 1 + FitScanTight(ks, styles, max_width, i - 1, total_width + width)

\* a scan that passes over an entry that does not fit and goes on to the
\* older ones; C29_RetainedIsFittingSuffix tells it from FitScan
RECURSIVE FitScanSkipping(_, _, _, _, _)
FitScanSkipping(ks, styles, max_width, i, total_width) ==
    IF i = 0 THEN 0
    ELSE LET width == StyleOf(styles, ks[i].label).width + Padding
         IN  IF total_width + width > max_width
             THEN FitScanSkipping(ks, styles, max_width, i - 1, total_width)
             ELSE 1 + FitScanSkipping(ks, styles, max_width, i - 1, total_width + width)

\* render: the scan from the newest entry backward; the number of entries
\* taken before the first one that does not fit
RECURSIVE FitScan(_, _, _, _, _)
FitScan(ks, styles, max_width, i, total_width) ==
    IF i = 0 THEN 0
    ELSE LET width == StyleOf(styles, ks[i].label).width + Padding
         IN  IF total_width + width > max_width THEN 0
             ELSE 1 + FitScan(ks, styles, max_width, i - 1, total_width + width)

\* an increment without the test against 1.0; C9_AnimationRange tells it
\* from Animate
AnimateUncapped(k) == [k EXCEPT !.anim = F32Add(k.anim, AnimStep)]

\* render: if key.anim < 1.0 { key.anim += 0.1 }
Animate(k) == IF k.anim < AnimFull THEN [k EXCEPT !.anim = F32Add(k.anim, AnimStep)] ELSE k

\* a trim that pops from the back; C8_BufferEqualsDrawList tells it from Prune
PruneBack(ks, allowed_count) ==
    IF Len(ks) > allowed_count THEN SubSeq(ks, 1, allowed_count) ELSE ks

\* render: while self.keys.len() > allowed_count { self.keys.pop_front() }
RECURSIVE Prune(_, _)
Prune(ks, allowed_count) ==
    IF Len(ks) > allowed_count THEN Prune(Tail(ks), allowed_count) ELSE ks

RECURSIVE SumWidth(_, _)
SumWidth(ks, styles) ==
    IF ks = << >> THEN 0
    ELSE StyleOf(styles, Head(ks).label).width + Padding + SumWidth(Tail(ks), styles)

\* a loop that animates every live entry, taken or not;
\* C10_OnlySelectedEntriesAnimate tells it from Scan
ScanAll(live, taken) == [i \in 1..Len(live) |-> Animate(live[i])]

\* render: the loop over iter_mut().rev(): the taken entries are animated,
\* the loop breaks before it touches the others
Scan(live, taken) ==
    [i \in 1..Len(live) |-> IF i > Len(live) - taken THEN Animate(live[i]) ELSE live[i]]

\* KeyBuffer::render at instant t: the buffer it leaves, the draw list it
\* paints (left to right) and the total width it fitted; and, for the
\* properties below, the entries the pass removed: those retain() expired
\* and those the trim popped from the front because they did not fit
render(ks, styles, max_width, t) ==
    LET live      == Retain(ks, t)
        n         == Len(live)
        taken     == FitScan(live, styles, max_width, n, 0)
        scanned   == Scan(live, taken)
        pushed    == [j \in 1..taken |-> scanned[n + 1 - j]]
        draw_list == [j \in 1..taken |-> pushed[taken + 1 - j]]
    IN  [keys        |-> Prune(scanned, Len(draw_list)),
         draw_list   |-> draw_list,
         total_width |-> SumWidth(draw_list, styles),
         expired     |-> SelectSeq(ks, LAMBDA k : ~(Ms(t - k.time) < ExpiryMs)),
         dropped     |-> SubSeq(scanned, 1, n - taken)]

(***************************************************************************)
(* input/layout.rs, input/keymap.rs: layouts                               *)
(***************************************************************************)
UnitedStates == [tag |-> "UnitedStates"]

UnitedKingdom == [tag |-> "UnitedKingdom"]

Other(id) == [tag |-> "Other", id |-> id]

\* a resolver that falls back to the UK table; C15_OtherLayoutBehavesAsUs
\* tells it from resolve_key_label
resolve_key_label_uk_fallback(key, layout) ==
    CASE layout.tag = "UnitedStates" -> resolve_us_label(key)
      [] OTHER -> resolve_uk_label(key)

\* a resolver that ignores the layout; C11_KeyDownLabel tells it from
\* resolve_key_label
resolve_key_label_us_only(key, layout) == resolve_us_label(key)

resolve_key_label(key, layout) ==
    CASE layout.tag = "UnitedKingdom" -> resolve_uk_label(key)
      [] layout.tag = "UnitedStates" -> resolve_us_label(key)
      [] OTHER -> resolve_us_label(key)

\* platform/linux/layout.rs: what detect_layout can return
DetectedLayouts == {UnitedKingdom, UnitedStates, Other(0)}

\* the layout of the machine the pipeline runs on
StartupLayouts == {UnitedKingdom}

(***************************************************************************)
(* input/input.rs: InputEvent                                              *)
(***************************************************************************)
KeyPress(label) == [kind |-> "KeyPress", label |-> label]

MouseClick(label) == [kind |-> "MouseClick", label |-> label]

ShiftKeys == {"ShiftLeft", "ShiftRight"}

\* format!("Mouse{:?}", button) for rdev::Button
MouseButtonLabel(button) ==
    <<"M", "o", "u", "s", "e">> \o
    CASE button = "Left" -> <<"L", "e", "f", "t">>
      [] button = "Right" -> <<"R", "i", "g", "h", "t">>
      [] button = "Middle" -> <<"M", "i", "d", "d", "l", "e">>
      [] OTHER -> <<"U", "n", "k", "n", "o", "w", "n", "(", "4", ")">>

(***************************************************************************)
(* Bounds of the model                                                     *)
(***************************************************************************)
\* ticks of the clock
MaxTime == 12

\* ticks between two looks at the clock
Stride == 3

\* events that wait in the channel
MaxQueue == 1

\* entries KeyBuffer holds when it is driven on its own
MaxBuffer == 2

\* the last tick at which the buffer driven on its own is pushed to; frames
\* go on to MaxTime
MaxPushTime == 5

\* entries pushed before the render pass that measures the fit
MaxEntries == 20

\* the keys and buttons the user presses
Keys == {"ShiftLeft", "KeyA"}

Buttons == {"Left"}

\* ui.available_width() of a frame
Widths == {100, 250}

\* the configuration files on disk: none, and one that widens Normal boxes
WideFile ==
    [styles |-> [c \in {"Normal"} |-> MkStyle(110, 90, 0, 20, "#1e1e30", "#ffffff")],
     timeout_ms |-> 500]

ConfigFiles == {NoFile, WideFile}

(***************************************************************************)
(* State                                                                   *)
(***************************************************************************)
VARIABLES
    now,            \* Instant::now(), in ticks
    shift_down,     \* the adapter's AtomicBool
    layout,         \* the layout detected at startup
    rx,             \* the mpsc channel from the adapter to the application
    listener,       \* the listener thread: its OS hook and the failures it has reported
    held,           \* the Shift keys that are physically down
    os_repeat,      \* the key the OS repeats while it is held, and the frames' pace
    config,         \* VisualiserApp.config
    keys,           \* VisualiserApp.key_buffer.keys
    recently_seen,  \* VisualiserApp.recently_seen
    last_clear,     \* VisualiserApp.last_clear
    last_ui_width,  \* VisualiserApp.last_ui_width
    pc,             \* where VisualiserApp::update stands
    needs_repaint,  \* update's local flag
    repaint,        \* the repaint the last frame requested
    last_pass,      \* render's draw list and what the pass removed, until the frame ends
    received,       \* history: the labels received since the last debounce clear
    dispatched,     \* history: per label, the push_key calls since the last clear
    gate            \* history: what the debounce gate did with the last event of this frame

vars == <<now, shift_down, layout, rx, listener, held, os_repeat, config, keys, recently_seen, last_clear,
          last_ui_width, pc, needs_repaint, repaint, last_pass, received, dispatched, gate>>

adapter_vars == <<shift_down, layout, rx, listener, held, os_repeat>>

app_vars == <<config, keys, recently_seen, last_clear, last_ui_width, pc,
              needs_repaint, repaint, last_pass, received, dispatched, gate>>

history_vars == <<received, dispatched, gate>>

\* thread::spawn: rdev::listen has installed the hook and has reported no error
Listening == [hook |-> "installed", reported |-> 0, os |-> "linux"]

\* no key is held down long enough for the OS to repeat it
NoRepeat == [key |-> "none", due |-> 0, frames |-> "prompt", others |-> 0]

NoGate == [label |-> << >>, admitted |-> FALSE, seen |-> FALSE]

\* dispatched counts up to 2: more than one is already too many
Count(f, label) == IF label \in DOMAIN f THEN f[label] ELSE 0

Counted(f, label) ==
    [l \in DOMAIN f \cup {label} |->
        IF l = label THEN (IF Count(f, l) < 2 THEN Count(f, l) + 1 ELSE 2) ELSE f[l]]

NoPass == [draw_list |-> << >>, total_width |-> 0, expired |-> << >>, dropped |-> << >>]

Init ==
    /\ now = 0
    /\ shift_down = FALSE
    /\ layout \in StartupLayouts
    /\ listener = Listening
    /\ held = {}
    /\ os_repeat = NoRepeat
    /\ rx = << >>
    /\ config \in {ConfigLoad(f) : f \in ConfigFiles}
    /\ keys = << >>
    /\ recently_seen = {}
    /\ last_clear = 0
    /\ last_ui_width = 0
    /\ pc = "idle"
    /\ needs_repaint = FALSE
    /\ repaint = "none"
    /\ last_pass = NoPass
    /\ received = {}
    /\ dispatched = << >>
    /\ gate = NoGate

(***************************************************************************)
(* platform/linux/input.rs: the listener's callback.  An event that        *)
(* arrives while a frame runs is either drained by that frame, as if it    *)
(* had arrived before the frame began, or waits for the next frame, as if  *)
(* it had arrived after it: the callback runs between frames.              *)
(***************************************************************************)
\* a callback that sends the Shift event without storing the flag;
\* C12_ShiftDownSetsFlagAndSends tells it from AdapterKeyPress
AdapterKeyPressNoFlag(key) ==
    /\ pc = "idle"
    /\ Len(rx) < MaxQueue
    /\ rx' = Append(rx, KeyPress(IF key \in ShiftKeys
                                 THEN <<"U+21E7", " ", "s", "h", "i", "f", "t">>
                                 ELSE IF shift_down THEN resolve_key_label(key, layout)
                                 ELSE resolve_physical_key(key)))
    /\ held' = IF key \in ShiftKeys THEN held \cup {key} ELSE held
    /\ UNCHANGED <<now, shift_down, layout, listener, os_repeat, app_vars>>

\* platform/linux/input.rs: EventType::KeyPress(key), the callback's arm
KeyPressArm(key) ==
    /\ listener.hook = "installed"
    /\ listener.os = "linux"
    /\ held' = IF key \in ShiftKeys THEN held \cup {key} ELSE held
    /\ IF key \in ShiftKeys
       THEN /\ shift_down' = TRUE
            /\ rx' = Append(rx, KeyPress(<<"U+21E7", " ", "s", "h", "i", "f", "t">>))
       ELSE /\ rx' = Append(rx, KeyPress(IF shift_down
                                         THEN resolve_key_label(key, layout)
                                         ELSE resolve_physical_key(key)))
            /\ UNCHANGED shift_down
    /\ UNCHANGED <<now, layout, listener, app_vars>>

\* the callback runs for a key-down
KeyPressCallback(key) == KeyPressArm(key) /\ UNCHANGED os_repeat

\* EventType::KeyPress(key), between two frames
AdapterKeyPress(key) ==
    /\ pc = "idle"
    /\ Len(rx) < MaxQueue
    /\ KeyPressCallback(key)

\* a callback that also sends an event on key-up; C13_OtherTransitionsSendNothing
\* tells it from AdapterKeyRelease
AdapterKeyReleaseSends(key) ==
    /\ pc = "idle"
    /\ Len(rx) < MaxQueue
    /\ shift_down' = IF key \in ShiftKeys THEN FALSE ELSE shift_down
    /\ rx' = Append(rx, KeyPress(resolve_physical_key(key)))
    /\ held' = held \ {key}
    /\ UNCHANGED <<now, layout, listener, os_repeat, app_vars>>

\* EventType::KeyRelease(key): the callback's arm, the same in the Linux and
\* in the Windows listener
KeyReleaseArm(key) ==
    /\ listener.hook = "installed"
    /\ listener.os \in {"linux", "windows"}
    /\ held' = held \ {key}
    /\ shift_down' = IF key \in ShiftKeys THEN FALSE ELSE shift_down
    /\ UNCHANGED <<now, layout, rx, listener, app_vars>>

\* the callback runs for a key-up
KeyReleaseCallback(key) == KeyReleaseArm(key) /\ UNCHANGED os_repeat

\* EventType::KeyRelease(key), between two frames
AdapterKeyRelease(key) ==
    /\ pc = "idle"
    /\ KeyReleaseCallback(key)

\* EventType::ButtonPress(button): the callback's arm, the same in the three
\* listeners
ButtonPressArm(button) ==
    /\ listener.hook = "installed"
    /\ rx' = Append(rx, MouseClick(MouseButtonLabel(button)))
    /\ UNCHANGED <<now, shift_down, layout, listener, held, app_vars>>

\* the callback runs for a mouse click
ButtonPressCallback(button) == ButtonPressArm(button) /\ UNCHANGED os_repeat

(***************************************************************************)
(* platform/windows/input.rs, platform/windows/windows.rs: the key-down    *)
(* arm of the Windows listener                                             *)
(***************************************************************************)
\* Option<T>
None == [some |-> FALSE]

Some(v) == [some |-> TRUE, value |-> v]

\* thread::spawn: the Windows listener, hook installed
ListeningWindows == [hook |-> "installed", reported |-> 0, os |-> "windows"]

\* vk_code_from_key
vk_code_from_key(key) ==
    CASE key = "Num0" -> Some(48)
      [] key = "Num1" -> Some(49)
      [] key = "Num2" -> Some(50)
      [] key = "Num3" -> Some(51)
      [] key = "Num4" -> Some(52)
      [] key = "Num5" -> Some(53)
      [] key = "Num6" -> Some(54)
      [] key = "Num7" -> Some(55)
      [] key = "Num8" -> Some(56)
      [] key = "Num9" -> Some(57)
      [] key = "KeyA" -> Some(65)
      [] key = "KeyB" -> Some(66)
      [] key = "KeyC" -> Some(67)
      [] key = "KeyD" -> Some(68)
      [] key = "KeyE" -> Some(69)
      [] key = "KeyF" -> Some(70)
      [] key = "KeyG" -> Some(71)
      [] key = "KeyH" -> Some(72)
      [] key = "KeyI" -> Some(73)
      [] key = "KeyJ" -> Some(74)
      [] key = "KeyK" -> Some(75)
      [] key = "KeyL" -> Some(76)
      [] key = "KeyM" -> Some(77)
      [] key = "KeyN" -> Some(78)
      [] key = "KeyO" -> Some(79)
      [] key = "KeyP" -> Some(80)
      [] key = "KeyQ" -> Some(81)
      [] key = "KeyR" -> Some(82)
      [] key = "KeyS" -> Some(83)
      [] key = "KeyT" -> Some(84)
      [] key = "KeyU" -> Some(85)
      [] key = "KeyV" -> Some(86)
      [] key = "KeyW" -> Some(87)
      [] key = "KeyX" -> Some(88)
      [] key = "KeyY" -> Some(89)
      [] key = "KeyZ" -> Some(90)
      [] key = "Space" -> Some(32)
      [] key = "Minus" -> Some(189)
      [] key = "Equal" -> Some(187)
      [] key = "LeftBracket" -> Some(219)
      [] key = "RightBracket" -> Some(221)
      [] key = "BackSlash" -> Some(220)
      [] key = "SemiColon" -> Some(186)
      [] key = "Quote" -> Some(222)
      [] key = "Comma" -> Some(188)
      [] key = "Dot" -> Some(190)
      [] key = "Slash" -> Some(191)
      [] OTHER -> None

\* translate_key_win32(vk): what ToUnicodeEx gives under the active layout and
\* the keyboard state of that moment is the operating system's answer: no
\* character, or a string of one or more characters
Win32Outcomes ==
    {None} \cup {Some(s) : s \in {<<"2">>, <<"U+00E9">>, <<"A">>, <<"^", "^">>}}

\* vk_code_from_key(key).and_then(|vk| translate_key_win32(vk))
\*     .unwrap_or_else(|| resolve_key_label(key, &layout))
translate_or_resolve(key, layout_, translated) ==
    IF vk_code_from_key(key).some /\ translated.some
    THEN translated.value
    ELSE resolve_key_label(key, layout_)

\* platform/windows/input.rs: EventType::KeyPress(key), the callback's arm;
\* translated is the answer translate_key_win32 gives if it is called
WindowsKeyPressCallback(key, translated) ==
    /\ listener.hook = "installed"
    /\ listener.os = "windows"
    /\ held' = IF key \in ShiftKeys THEN held \cup {key} ELSE held
    /\ IF key \in ShiftKeys
       THEN /\ shift_down' = TRUE
            /\ rx' = Append(rx, KeyPress(<<"U+21E7", " ", "s", "h", "i", "f", "t">>))
       ELSE /\ rx' = Append(rx, KeyPress(IF shift_down
                                         THEN translate_or_resolve(key, layout, translated)
                                         ELSE resolve_physical_key(key)))
            /\ UNCHANGED shift_down
    /\ UNCHANGED <<now, layout, listener, os_repeat, app_vars>>

\* EventType::KeyPress(key) of the Windows listener, between two frames
WindowsAdapterKeyPress(key, translated) ==
    /\ pc = "idle"
    /\ Len(rx) < MaxQueue
    /\ WindowsKeyPressCallback(key, translated)

(***************************************************************************)
(* platform/macos/input.rs: the macOS listener.  It keeps no Shift flag    *)
(* and detects no layout                                                   *)
(***************************************************************************)
\* thread::spawn: the macOS listener, hook installed
ListeningMacos == [hook |-> "installed", reported |-> 0, os |-> "macos"]

\* the macOS listener has no layout
NoLayout == [tag |-> "None"]

\* resolve_macos_key(&raw): the function is defined outside these sources;
\* the listener takes from it no label, or a label of its own
MacOutcomes ==
    {None} \cup {Some(s) : s \in {<<"2">>, <<"U+2318", " ", "c", "m", "d">>, <<"A">>}}

\* EventType::KeyPress(key): label = resolve_macos_key(&raw).unwrap_or_else(|| raw)
\* for raw = format!("{:?}", key); Shift is a key like any other
MacKeyPressCallback(key, resolved) ==
    /\ listener.hook = "installed"
    /\ listener.os = "macos"
    /\ held' = IF key \in ShiftKeys THEN held \cup {key} ELSE held
    /\ rx' = Append(rx, KeyPress(IF resolved.some THEN resolved.value ELSE DebugFmt(key)))
    /\ UNCHANGED <<now, shift_down, layout, listener, os_repeat, app_vars>>

\* EventType::KeyRelease(key): the arm prints and sends nothing
MacKeyReleaseCallback(key) ==
    /\ listener.hook = "installed"
    /\ listener.os = "macos"
    /\ held' = held \ {key}
    /\ UNCHANGED <<now, shift_down, layout, rx, listener, os_repeat, app_vars>>

\* EventType::ButtonPress(button), between two frames
AdapterButtonPress(button) ==
    /\ pc = "idle"
    /\ Len(rx) < MaxQueue
    /\ ButtonPressCallback(button)

\* every other EventType (mouse move, wheel, button release): _ => {}
AdapterIgnored(kind) ==
    /\ pc = "idle"
    /\ kind \in {"ButtonRelease", "MouseMove", "Wheel"}
    /\ UNCHANGED vars

(***************************************************************************)
(* platform/linux/input.rs: the listener on its own, for every key and     *)
(* button of rdev and every layout detect_layout returns, from any moment  *)
(* at which the channel is empty                                           *)
(***************************************************************************)
AllKeys == NamedKeys \cup UnknownKeys

AllButtons == {"Left", "Right", "Middle", "Unknown(4)"}

InitAdapter ==
    /\ now = 0
    /\ shift_down \in BOOLEAN
    /\ layout \in DetectedLayouts
    /\ listener = Listening
    /\ held = IF shift_down THEN {"ShiftLeft"} ELSE {}
    /\ os_repeat = NoRepeat
    /\ rx = << >>
    /\ config = ConfigLoad(NoFile)
    /\ keys = << >>
    /\ recently_seen = {}
    /\ last_clear = 0
    /\ last_ui_width = 0
    /\ pc = "idle"
    /\ needs_repaint = FALSE
    /\ repaint = "none"
    /\ last_pass = NoPass
    /\ received = {}
    /\ dispatched = << >>
    /\ gate = NoGate

\* the application has drained the channel before the next key or button
\* goes down
NextAdapter ==
    \/ \E key \in AllKeys : rx = << >> /\ AdapterKeyPress(key)
    \/ \E key \in AllKeys : AdapterKeyRelease(key)
    \/ \E button \in AllButtons : rx = << >> /\ AdapterButtonPress(button)
    \/ \E kind \in {"ButtonRelease", "MouseMove", "Wheel"} : AdapterIgnored(kind)

SpecAdapter == InitAdapter /\ [][NextAdapter]_vars

(***************************************************************************)
(* ui/visualiser.rs: VisualiserApp::update, one frame                      *)
(***************************************************************************)
\* a frame whose reload starts from an empty buffer and an empty debounce
\* set; C19_ReloadLeavesBufferAlone tells it from UpdateBegin
UpdateBeginResetting ==
    /\ pc = "idle"
    /\ \/ UNCHANGED <<config, keys, recently_seen>>
       \/ /\ \E f \in ConfigFiles : config' = ConfigLoad(f)
          /\ keys' = << >>
          /\ recently_seen' = {}
    /\ needs_repaint' = FALSE
    /\ pc' = "drain"
    /\ UNCHANGED <<now, adapter_vars, last_clear, last_ui_width,
                   repaint, last_pass, history_vars>>

\* config.maybe_reload(), then let mut needs_repaint = false
BeginFrame ==
    /\ pc = "idle"
    /\ \/ UNCHANGED config
       \/ \E f \in ConfigFiles : config' = ConfigLoad(f)
    /\ needs_repaint' = FALSE
    /\ pc' = "drain"
    /\ UNCHANGED <<now, shift_down, layout, rx, listener, held, keys, recently_seen,
                   last_clear, last_ui_width, repaint, last_pass, history_vars>>

\* update is called: a frame begins
UpdateBegin == BeginFrame /\ UNCHANGED os_repeat

\* a gate that remembers nothing; C7_FirstDispatchedSecondDropped tells it
\* from contains_label
contains_nothing(seen, label) == FALSE

\* self.recently_seen.contains(&label)
contains_label(seen, label) == label \in seen

\* a receive that takes the event sent last; C14_ChannelIsFifo tells it from
\* try_recv
try_recv_newest(ch) == [event |-> ch[Len(ch)], rest |-> SubSeq(ch, 1, Len(ch) - 1)]

\* mpsc::Receiver::try_recv on a channel that is not empty: the event sent
\* first, and what stays in the channel
try_recv(ch) == [event |-> Head(ch), rest |-> Tail(ch)]

\* a drain whose gate asks for a repaint even when it drops the event;
\* C25_DroppedEventChangesNothing tells it from UpdateRecv
UpdateRecvRepaints ==
    /\ pc = "drain"
    /\ rx # << >>
    /\ rx' = Tail(rx)
    /\ LET event == Head(rx)
       IN  /\ IF event.label \notin recently_seen
              THEN /\ keys' = push_key(keys, event.label, event.kind = "MouseClick", now)
                   /\ recently_seen' = recently_seen \cup {event.label}
                   /\ dispatched' = Counted(dispatched, event.label)
              ELSE UNCHANGED <<keys, recently_seen, dispatched>>
           /\ needs_repaint' = TRUE
           /\ received' = received \cup {event.label}
           /\ gate' = [label |-> event.label, seen |-> TRUE,
                       admitted |-> event.label \notin recently_seen]
    /\ UNCHANGED <<now, shift_down, layout, listener, held, os_repeat, config, last_clear,
                   last_ui_width, pc, repaint, last_pass>>

\* while let Ok(event) = self.rx.try_recv(): one event
UpdateRecv ==
    /\ pc = "drain"
    /\ rx # << >>
    /\ rx' = try_recv(rx).rest
    /\ LET event == try_recv(rx).event
       IN  /\ IF ~contains_label(recently_seen, event.label)
              THEN /\ keys' = push_key(keys, event.label, event.kind = "MouseClick", now)
                   /\ recently_seen' = recently_seen \cup {event.label}
                   /\ needs_repaint' = TRUE
                   /\ dispatched' = Counted(dispatched, event.label)
              ELSE UNCHANGED <<keys, recently_seen, needs_repaint, dispatched>>
           /\ received' = received \cup {event.label}
           /\ gate' = [label |-> event.label, seen |-> TRUE,
                       admitted |-> ~contains_label(recently_seen, event.label)]
    /\ UNCHANGED <<now, shift_down, layout, listener, held, os_repeat, config, last_clear,
                   last_ui_width, pc, repaint, last_pass>>

\* try_recv() returns Err: the channel is empty
UpdateRecvEmpty ==
    /\ pc = "drain"
    /\ rx = << >>
    /\ pc' = "debounce"
    /\ gate' = NoGate
    /\ UNCHANGED <<now, adapter_vars, config, keys, recently_seen, last_clear,
                   last_ui_width, needs_repaint, repaint, last_pass, received, dispatched>>

\* a frame that never empties the Debounce Set; C27_NewestHeldNeverExpires tells it
\* from UpdateDebounce
UpdateDebounceNever ==
    /\ pc = "debounce"
    /\ pc' = "render"
    /\ UNCHANGED <<now, adapter_vars, config, keys, recently_seen, last_clear, last_ui_width,
                   needs_repaint, repaint, last_pass, history_vars>>

\* if self.last_clear.elapsed() > Duration::from_millis(250)
UpdateDebounce ==
    /\ pc = "debounce"
    /\ IF Ms(now - last_clear) > DebounceMs
       THEN /\ recently_seen' = {}
            /\ last_clear' = now
            /\ received' = {}
            /\ dispatched' = << >>
       ELSE UNCHANGED <<recently_seen, last_clear, received, dispatched>>
    /\ pc' = "render"
    /\ UNCHANGED <<now, adapter_vars, config, keys, last_ui_width, needs_repaint,
                   repaint, last_pass, gate>>

\* a central panel that first drops the entries older than the configured
\* timeout; C20_TimeoutNeverRead tells it from PanelPass
PanelPassTimeout(width) ==
    /\ LET young == SelectSeq(keys, LAMBDA k : Ms(now - k.time) < config.timeout_ms)
           pass  == render(young, config.styles, width, now)
       IN  /\ keys' = pass.keys
           /\ last_pass' = [draw_list |-> pass.draw_list, total_width |-> pass.total_width,
                            expired |-> pass.expired, dropped |-> pass.dropped]
    /\ last_ui_width' = width
    /\ pc' = "repaint"

\* the closure of the central panel: self.last_ui_width = width;
\* self.key_buffer.render(ui, &self.config, width)
PanelPass(width) ==
    /\ LET pass == render(keys, config.styles, width, now)
       IN  /\ keys' = pass.keys
           /\ last_pass' = [draw_list |-> pass.draw_list, total_width |-> pass.total_width,
                            expired |-> pass.expired, dropped |-> pass.dropped]
    /\ last_ui_width' = width
    /\ pc' = "repaint"

\* the central panel, as the one step of a frame that follows the debounce
\* test
CentralPanel(width) ==
    /\ PanelPass(width)
    /\ UNCHANGED <<now, adapter_vars, config, recently_seen, last_clear, needs_repaint,
                   repaint, history_vars>>

UpdateRender(width) ==
    /\ pc = "render"
    /\ CentralPanel(width)

\* if needs_repaint { request_repaint() } else { request_repaint_after(33 ms) };
\* the frame ends and render's locals are gone
UpdateRepaint ==
    /\ pc = "repaint"
    /\ repaint' = IF needs_repaint THEN "immediately" ELSE "after 33 ms"
    /\ last_pass' = NoPass
    /\ pc' = "idle"
    /\ UNCHANGED <<now, adapter_vars, config, keys, recently_seen, last_clear,
                   last_ui_width, needs_repaint, history_vars>>

\* time passes between frames: a frame is short against the clock's stride
Tick ==
    /\ pc = "idle"
    /\ now + Stride <= MaxTime
    /\ now' = now + Stride
    /\ UNCHANGED <<adapter_vars, app_vars>>

\* events the adapter has sent and the application has not yet received, when
\* the adapter runs at any point of a frame
MaxChannel == 2

Next ==
    \/ \E key \in Keys : AdapterKeyPress(key)
    \/ \E key \in Keys : AdapterKeyRelease(key)
    \/ \E button \in Buttons : AdapterButtonPress(button)
    \/ UpdateBegin
    \/ UpdateRecv
    \/ UpdateRecvEmpty
    \/ UpdateDebounce
    \/ \E width \in Widths : UpdateRender(width)
    \/ UpdateRepaint
    \/ Tick

Spec == Init /\ [][Next]_vars

(***************************************************************************)
(* platform/linux, platform/windows, platform/macos, input/keymap.rs: each  *)
(* platform's listener with Shift held, under every layout that platform's *)
(* detect_layout can return                                                *)
(***************************************************************************)
\* language ids other than 0x0409 and 0x0809
LayoutIds == {0, 1, 1036, 65535}

AnyLayouts == {UnitedStates, UnitedKingdom} \cup {Other(id) : id \in LayoutIds}

\* platform/windows/layout.rs: what detect_layout can return
WindowsLayouts == AnyLayouts

\* a listener and the layout it detected at its start
ListenerLayouts ==
    {<<Listening, l>> : l \in DetectedLayouts}
    \cup {<<ListeningWindows, l>> : l \in WindowsLayouts}
    \cup {<<ListeningMacos, NoLayout>>}

InitLayout ==
    /\ now = 0
    /\ \E pair \in ListenerLayouts :
           /\ listener = pair[1]
           /\ layout = pair[2]
           /\ shift_down = (pair[1].os # "macos")
    /\ held = {"ShiftLeft"}
    /\ os_repeat = NoRepeat
    /\ rx = << >>
    /\ config = ConfigLoad(NoFile)
    /\ keys = << >>
    /\ recently_seen = {}
    /\ last_clear = 0
    /\ last_ui_width = 0
    /\ pc = "idle"
    /\ needs_repaint = FALSE
    /\ repaint = "none"
    /\ last_pass = NoPass
    /\ received = {}
    /\ dispatched = << >>
    /\ gate = NoGate

NextLayout ==
    \/ \E key \in AllKeys : rx = << >> /\ AdapterKeyPress(key)
    \/ \E key \in AllKeys : \E translated \in Win32Outcomes :
           rx = << >> /\ WindowsAdapterKeyPress(key, translated)
    \/ \E key \in AllKeys : \E resolved \in MacOutcomes :
           rx = << >> /\ MacKeyPressCallback(key, resolved)
    \/ \E key \in AllKeys : AdapterKeyRelease(key)
    \/ \E key \in held : MacKeyReleaseCallback(key)
    \/ \E button \in AllButtons : rx = << >> /\ AdapterButtonPress(button)

SpecLayout == InitLayout /\ [][NextLayout]_vars

(***************************************************************************)
(* platform/linux/input.rs, app.rs: the listener thread from its start:    *)
(* rdev::listen installs the OS hook and runs the callback for every       *)
(* event, or returns an error; the application loop runs beside it         *)
(***************************************************************************)
\* thread::spawn: listen has not yet installed the hook
Starting == [hook |-> "pending", reported |-> 0, os |-> "linux"]

\* listen() installs the hook and from now on runs the callback
ListenInstalls ==
    /\ listener.hook = "pending"
    /\ listener' = [listener EXCEPT !.hook = "installed"]
    /\ UNCHANGED <<now, shift_down, layout, rx, held, os_repeat, app_vars>>

\* a listener that goes on listening after it has reported the failure;
\* C22_FailedHookIsSilent tells it from ListenFails
ListenFailsAndListens ==
    /\ listener.hook = "pending"
    /\ listener' = [listener EXCEPT !.hook = "installed", !.reported = listener.reported + 1]
    /\ UNCHANGED <<now, shift_down, layout, rx, held, os_repeat, app_vars>>

\* if let Err(err) = listen(..) { eprintln!(..) }: the closure of the thread
\* returns, the thread ends and the Sender is dropped
ListenFails ==
    /\ listener.hook = "pending"
    /\ listener' = [listener EXCEPT !.hook = "failed", !.reported = listener.reported + 1]
    /\ UNCHANGED <<now, shift_down, layout, rx, held, os_repeat, app_vars>>

InitHook ==
    /\ now = 0
    /\ shift_down = FALSE
    /\ layout \in StartupLayouts
    /\ listener = Starting
    /\ held = {}
    /\ os_repeat = NoRepeat
    /\ rx = << >>
    /\ config = ConfigLoad(NoFile)
    /\ keys = << >>
    /\ recently_seen = {}
    /\ last_clear = 0
    /\ last_ui_width = 0
    /\ pc = "idle"
    /\ needs_repaint = FALSE
    /\ repaint = "none"
    /\ last_pass = NoPass
    /\ received = {}
    /\ dispatched = << >>
    /\ gate = NoGate

NextHook ==
    \/ ListenInstalls
    \/ ListenFails
    \/ \E key \in Keys : AdapterKeyPress(key)
    \/ \E key \in Keys : AdapterKeyRelease(key)
    \/ UpdateBegin
    \/ UpdateRecv
    \/ UpdateRecvEmpty
    \/ UpdateDebounce
    \/ \E width \in Widths : UpdateRender(width)
    \/ UpdateRepaint
    \/ Tick

\* eframe calls update again after every frame: each frame ends with
\* request_repaint() or request_repaint_after(33 ms)
\* the step update takes next
Frame ==
    \/ UpdateBegin
    \/ UpdateRecv
    \/ UpdateRecvEmpty
    \/ UpdateDebounce
    \/ \E width \in Widths : UpdateRender(width)
    \/ UpdateRepaint

\* the application thread is scheduled whatever has become of the listener
\* thread; the assumption is made only for the frames that follow a failure
FrameFairness == WF_vars(listener.hook = "failed" /\ Frame)

SpecHook == InitHook /\ [][NextHook]_vars /\ FrameFairness

(***************************************************************************)
(* ui/visualiser.rs: frames that begin at the instant their events arrive: *)
(* the clock stands still while an event waits in the channel              *)
(***************************************************************************)
NextPrompt ==
    \/ \E key \in Keys : AdapterKeyPress(key)
    \/ \E button \in Buttons : AdapterButtonPress(button)
    \/ UpdateBegin
    \/ UpdateRecv
    \/ UpdateRecvEmpty
    \/ UpdateDebounce
    \/ \E width \in Widths : UpdateRender(width)
    \/ UpdateRepaint
    \/ rx = << >> /\ Tick

SpecPrompt == Init /\ [][NextPrompt]_vars

(***************************************************************************)
(* platform/linux/input.rs, ui/visualiser.rs: one key is held down and the *)
(* OS repeats its key-down at intervals shorter than the debounce window.  *)
(* os_repeat.key is the key, os_repeat.due the instant of its next         *)
(* key-down.  The clock moves in single ticks and waits for nothing but    *)
(* the key-down that is due: frames begin at any instant, early or late,   *)
(* and the channel holds every key-down no frame has drained yet.  Between *)
(* two repeats any other input may arrive: key-downs of the other keys,    *)
(* the release of a Shift key that is not the held one, mouse clicks;      *)
(* os_repeat.others counts these events, up to MaxOther.                   *)
(* os_repeat.frames remembers how the frames kept pace: "prompt" when a    *)
(* frame has begun at this instant, "due" when none has yet, "late" once   *)
(* an instant has passed without a frame.                                  *)
(***************************************************************************)
\* the intervals between two repeats, in ticks: those of the clock's grid
\* that are shorter than the debounce window
RepeatGaps == {d \in 1..MaxTime : Ms(d) < DebounceMs /\ Ms(d + 1) >= DebounceMs}

\* the events other than the repeats that arrive while the key is held, and
\* the last instant at which one arrives
MaxOther == 1

MaxOtherTime == 1

\* a key of Keys goes down at instant 0 and stays down
InitRepeat ==
    /\ now = 0
    /\ shift_down = FALSE
    /\ layout \in StartupLayouts
    /\ listener = Listening
    /\ held = {}
    /\ os_repeat \in {[key |-> key, due |-> 0, frames |-> "due", others |-> 0] : key \in Keys}
    /\ rx = << >>
    /\ config \in {ConfigLoad(f) : f \in ConfigFiles}
    /\ keys = << >>
    /\ recently_seen = {}
    /\ last_clear = 0
    /\ last_ui_width = 0
    /\ pc = "idle"
    /\ needs_repaint = FALSE
    /\ repaint = "none"
    /\ last_pass = NoPass
    /\ received = {}
    /\ dispatched = << >>
    /\ gate = NoGate

\* the key-down of the held key that is due at this instant arrives and the
\* callback runs, between two frames: EventType::KeyPress(key); the OS will
\* repeat it d ticks later
RepeatArrives(d) ==
    /\ pc = "idle"
    /\ now = os_repeat.due
    /\ KeyPressArm(os_repeat.key)
    /\ os_repeat' = [os_repeat EXCEPT !.due = now + d]

\* the clock moves on by one tick, up to the instant of the next key-down
RepeatTick ==
    /\ pc = "idle"
    /\ now < MaxTime
    /\ now < os_repeat.due
    /\ now' = now + 1
    /\ os_repeat' = [os_repeat EXCEPT !.frames = IF @ = "prompt" THEN "due" ELSE "late"]
    /\ UNCHANGED <<shift_down, layout, rx, listener, held, app_vars>>

\* update is called while the key is held: a frame begins
RepeatFrameBegin ==
    /\ BeginFrame
    /\ os_repeat' = [os_repeat EXCEPT !.frames = IF @ = "late" THEN "late" ELSE "prompt"]

\* another event arrives while the key is held and the callback runs,
\* between two frames: the key-down of another key, the key-up of a Shift key
\* that is not the held one, a mouse click
OtherArrives ==
    /\ pc = "idle"
    /\ os_repeat.others < MaxOther
    /\ now <= MaxOtherTime
    /\ os_repeat' = [os_repeat EXCEPT !.others = @ + 1]
    /\ \/ \E key \in Keys \ {os_repeat.key} : KeyPressArm(key)
       \/ \E key \in (Keys \cap ShiftKeys) \ {os_repeat.key} : KeyReleaseArm(key)
       \/ \E button \in Buttons : ButtonPressArm(button)

NextRepeat ==
    \/ \E d \in RepeatGaps : RepeatArrives(d)
    \/ RepeatTick
    \/ OtherArrives
    \/ RepeatFrameBegin
    \/ UpdateRecv
    \/ UpdateRecvEmpty
    \/ UpdateDebounce
    \/ \E width \in Widths : UpdateRender(width)
    \/ UpdateRepaint

SpecRepeat == InitRepeat /\ [][NextRepeat]_vars

(***************************************************************************)
(* platform/linux/input.rs: the two Shift keys and two other keys, pressed *)
(* and released in any order; a key is released only while it is down      *)
(***************************************************************************)
ShiftTestKeys == ShiftKeys \cup {"Num2", "KeyA"}

NextShift ==
    \/ \E key \in ShiftTestKeys : Len(rx) < MaxChannel + 1 /\ KeyPressCallback(key)
    \/ \E key \in held : KeyReleaseCallback(key)

InitShift ==
    /\ Init
    /\ config = ConfigLoad(NoFile)

SpecShift == InitShift /\ [][NextShift]_vars

(***************************************************************************)
(* input/keymap.rs, ui/ui.rs: one label through a frame: received, pushed  *)
(* (normalised, stripped, split, formatted), classified and rendered       *)
(***************************************************************************)
\* labels that try the classifier's rules, their order and the letter case
EdgeLabels ==
    {<<"f", "0">>, <<"f", "1", "2">>, <<"F", "1", "2">>, <<"f", "1">>, <<"f", "2", "4">>,
     <<"F", "2", "4">>, <<"f", "2", "5">>, <<"f", "2", "5", "5">>, <<"f", "2", "5", "6">>,
     <<"f">>, <<"F">>, <<"f", "+", "5">>, <<"f", "0", "1">>, <<"f", "1", "a">>, <<"f", "n">>,
     <<"F", "n">>, <<"1", "2", "3">>, <<"0">>, <<"A", "b", "1">>, <<"1", "a">>, <<"a", "b">>,
     <<"Z">>, <<"h", "o", "m", "e">>, <<"H", "O", "M", "E">>, <<"H", "o", "m", "e">>,
     <<"h", "O", "m", "E">>, <<"h", "o", "m", "e", "s">>, <<"v", "o", "l", "u", "m", "e">>,
     <<"M", "u", "t", "e">>, <<"w", "e", "b", "m", "a", "i", "l">>, <<"s", "t", "o", "p">>,
     <<"L", "E", "F", "T">>, <<"L", "e", "f", "t">>, <<"E", "S", "C">>, <<"E", "s", "c">>,
     <<"S", "H", "I", "F", "T">>, <<"T", "a", "b">>, <<"T", "A", "B">>,
     <<"D", "E", "L", "E", "T", "E">>, <<"P", "g", "U", "p">>, <<"E", "N", "D">>,
     <<"S", "p", "a", "c", "e">>, <<"S", "P", "A", "C", "E">>, <<"a", " ", "b">>, <<"-">>,
     <<"_">>, <<";">>, <<" ">>, <<"U+00E9">>, <<"U+00A3">>, <<"f", "U+00E9">>,
     <<"F", "U+00C9">>, <<"f", "U+00DF">>}

\* labels whose text is empty after the prefix is stripped, the label is
\* split at its first space and both parts are trimmed
EmptyTextLabels ==
    {<< >>, <<" ">>, <<" ", " ">>, <<"K", "e", "y">>, <<"x", " ">>}

\* the raw names of the tables, what they normalise to, and what the
\* listener sends for any key with and without Shift
KeyLabels ==
    KeyTableLabels
    \cup {normalize_key_label(raw) : raw \in KeyTableLabels}
    \cup {DebugFmt(key) : key \in AllKeys}
    \cup {resolve_physical_key(key) : key \in AllKeys}
    \cup {resolve_us_label(key) : key \in AllKeys}
    \cup {resolve_uk_label(key) : key \in AllKeys}
    \cup EdgeLabels
    \cup EmptyTextLabels

MouseButtonLabels ==
    MouseTableLabels
    \cup {normalize_mouse_label(raw) : raw \in MouseTableLabels}
    \cup {MouseButtonLabel(button) : button \in AllButtons}

LabelEvents ==
    {KeyPress(label) : label \in KeyLabels \cup MouseButtonLabels}
    \cup {MouseClick(label) : label \in MouseButtonLabels}

InitLabel ==
    /\ now = 0
    /\ shift_down = FALSE
    /\ layout \in StartupLayouts
    /\ listener = Listening
    /\ held = {}
    /\ os_repeat = NoRepeat
    /\ rx \in {<<event>> : event \in LabelEvents}
    /\ config = ConfigLoad(NoFile)
    /\ keys = << >>
    /\ recently_seen = {}
    /\ last_clear = 0
    /\ last_ui_width = 0
    /\ pc = "drain"
    /\ needs_repaint = FALSE
    /\ repaint = "none"
    /\ last_pass = NoPass
    /\ received = {}
    /\ dispatched = << >>
    /\ gate = NoGate

NextLabel ==
    \/ UpdateRecv
    \/ UpdateRecvEmpty
    \/ UpdateDebounce
    \/ \E width \in Widths : UpdateRender(width)
    \/ UpdateRepaint

SpecLabel == InitLabel /\ [][NextLabel]_vars

(***************************************************************************)
(* app.rs: the listener thread and the application loop, interleaved at    *)
(* every point of a frame, at one instant of the clock                     *)
(***************************************************************************)
NextChannel ==
    \/ \E key \in Keys : Len(rx) < MaxChannel /\ KeyPressCallback(key)
    \/ \E key \in Keys : KeyReleaseCallback(key)
    \/ \E button \in Buttons : Len(rx) < MaxChannel /\ ButtonPressCallback(button)
    \/ UpdateBegin
    \/ UpdateRecv
    \/ UpdateRecvEmpty
    \/ UpdateDebounce
    \/ \E width \in Widths : UpdateRender(width)
    \/ UpdateRepaint

SpecChannel == Init /\ [][NextChannel]_vars

(***************************************************************************)
(* ui/ui.rs: KeyBuffer driven on its own, at every tick of the clock: a     *)
(* label is pushed, or a frame renders the buffer                          *)
(***************************************************************************)
BufferEvents ==
    {KeyPress(resolve_physical_key(key)) : key \in Keys}

\* key_buffer.push_key(label, is_mouse)
BufferPush(event) ==
    /\ pc = "idle"
    /\ now <= MaxPushTime
    /\ Len(keys) < MaxBuffer
    /\ keys' = push_key(keys, event.label, event.kind = "MouseClick", now)
    /\ UNCHANGED <<now, adapter_vars, config, recently_seen, last_clear, last_ui_width,
                   pc, needs_repaint, repaint, last_pass, history_vars>>

\* a frame with no event and no reload: update finds the channel empty,
\* empties the Debounce Set when 250 ms have passed since the last clear, and
\* the central panel renders the buffer
BufferFrame(width) ==
    /\ pc = "idle"
    /\ rx = << >>
    /\ needs_repaint' = FALSE
    /\ gate' = NoGate
    /\ IF Ms(now - last_clear) > DebounceMs
       THEN /\ recently_seen' = {}
            /\ last_clear' = now
            /\ received' = {}
            /\ dispatched' = << >>
       ELSE UNCHANGED <<recently_seen, last_clear, received, dispatched>>
    /\ PanelPass(width)
    /\ UNCHANGED <<now, adapter_vars, config, repaint>>

BufferTick ==
    /\ pc = "idle"
    /\ now + 1 <= MaxTime
    /\ now' = now + 1
    /\ UNCHANGED <<adapter_vars, app_vars>>

\* KeyBuffer::new(), under the styles of Config::load with no file
InitBuffer ==
    /\ Init
    /\ config = ConfigLoad(NoFile)

NextBuffer ==
    \/ \E event \in BufferEvents : BufferPush(event)
    \/ \E width \in Widths : BufferFrame(width)
    \/ UpdateRepaint
    \/ BufferTick

SpecBuffer == InitBuffer /\ [][NextBuffer]_vars

(***************************************************************************)
(* config/config.rs, ui/ui.rs: the same pushes and frames under two        *)
(* configurations that differ only in timeout_ms                           *)
(***************************************************************************)
\* a configuration file that sets timeout_ms and nothing else
TimeoutFile == [styles |-> << >>, timeout_ms |-> 500]

InitTimeout ==
    /\ now = 0
    /\ shift_down = FALSE
    /\ layout \in StartupLayouts
    /\ listener = Listening
    /\ held = {}
    /\ os_repeat = NoRepeat
    /\ rx = << >>
    /\ config \in {ConfigLoad(NoFile), ConfigLoad(TimeoutFile)}
    /\ keys = << >>
    /\ recently_seen = {}
    /\ last_clear = 0
    /\ last_ui_width = 0
    /\ pc = "idle"
    /\ needs_repaint = FALSE
    /\ repaint = "none"
    /\ last_pass = NoPass
    /\ received = {}
    /\ dispatched = << >>
    /\ gate = NoGate

NextTimeout ==
    \/ \E event \in BufferEvents : BufferPush(event)
    \/ \E width \in Widths : BufferFrame(width)
    \/ UpdateRepaint
    \/ Tick

SpecTimeout == InitTimeout /\ [][NextTimeout]_vars

(***************************************************************************)
(* ui/ui.rs: one render pass over a buffer of distinct letters, all pushed *)
(* at the instant of the pass                                              *)
(***************************************************************************)
Letters ==
    <<"KeyA", "KeyB", "KeyC", "KeyD", "KeyE", "KeyG", "KeyH", "KeyI", "KeyJ",
      "KeyK", "KeyL", "KeyM", "KeyN", "KeyO", "KeyP", "KeyQ", "KeyR", "KeyS",
      "KeyT", "KeyU", "KeyV", "KeyW", "KeyX", "KeyY", "KeyZ", "KeyF">>

RECURSIVE PushLetters(_)
PushLetters(n) ==
    IF n = 0 THEN << >>
    ELSE push_key(PushLetters(n - 1), resolve_physical_key(Letters[n]), FALSE, 0)

\* ui.available_width() of the pass
FitWidths == {0, 97, 98, 117, 118, 489, 490, 500, 1959, 1960, 2500}

InitFit ==
    /\ now = 0
    /\ shift_down = FALSE
    /\ layout \in StartupLayouts
    /\ listener = Listening
    /\ held = {}
    /\ os_repeat = NoRepeat
    /\ rx = << >>
    /\ config \in {ConfigLoad(f) : f \in ConfigFiles}
    /\ \E n \in 0..MaxEntries : keys = PushLetters(n)
    /\ recently_seen = {}
    /\ last_clear = 0
    /\ last_ui_width = 0
    /\ pc = "render"
    /\ needs_repaint = TRUE
    /\ repaint = "none"
    /\ last_pass = NoPass
    /\ received = {}
    /\ dispatched = << >>
    /\ gate = NoGate

NextFit ==
    \/ \E width \in FitWidths : UpdateRender(width)
    \/ UpdateRepaint

SpecFit == InitFit /\ [][NextFit]_vars

(***************************************************************************)
(* ui/ui.rs: one render pass over a buffer of letters and modifiers, the   *)
(* first of them pushed a second before the pass, the others later         *)
(***************************************************************************)
MixedKeys == {"KeyA", "KeyB", "ShiftLeft", "ControlLeft"}

MaxMixed == 4

\* the instants of the pushes and of the pass, in ticks
EarlyPush == 0

LatePush == 5

PassTime == 10

\* push_key for presses[1..n] in order, the first early of them at EarlyPush
RECURSIVE PushMixed(_, _, _)
PushMixed(presses, n, early) ==
    IF n = 0 THEN << >>
    ELSE push_key(PushMixed(presses, n - 1, early), resolve_physical_key(presses[n]),
                  FALSE, IF n <= early THEN EarlyPush ELSE LatePush)

\* ui.available_width() of the pass
SuffixWidths == {0, 97, 98, 127, 128, 200, 226, 256, 500}

InitSuffix ==
    /\ now = PassTime
    /\ shift_down = FALSE
    /\ layout \in StartupLayouts
    /\ listener = Listening
    /\ held = {}
    /\ os_repeat = NoRepeat
    /\ rx = << >>
    /\ config \in {ConfigLoad(f) : f \in ConfigFiles}
    /\ \E n \in 0..MaxMixed : \E presses \in [1..n -> MixedKeys] : \E early \in 0..n :
           keys = PushMixed(presses, n, early)
    /\ recently_seen = {}
    /\ last_clear = 0
    /\ last_ui_width = 0
    /\ pc = "render"
    /\ needs_repaint = TRUE
    /\ repaint = "none"
    /\ last_pass = NoPass
    /\ received = {}
    /\ dispatched = << >>
    /\ gate = NoGate

NextSuffix ==
    \/ \E width \in SuffixWidths : UpdateRender(width)
    \/ UpdateRepaint

SpecSuffix == InitSuffix /\ [][NextSuffix]_vars

(***************************************************************************)
(* Steps of a frame, as the properties below recognise them                *)
(***************************************************************************)
\* update receives an event and the debounce gate admits it: push_key runs
PushStep ==
    /\ pc = "drain"
    /\ rx # << >>
    /\ ~contains_label(recently_seen, Head(rx).label)
    /\ rx' = Tail(rx)

\* update runs the render pass
RenderStep == pc = "render" /\ pc' = "repaint"

\* the state right after a render pass, at the instant of the pass
AfterRender == pc = "repaint"

(***************************************************************************)
(* Properties                                                              *)
(***************************************************************************)
\* C1: in every reachable state of the pipeline no two entries of the Display
\* Buffer have the same label text.
C1_NoTwoEntriesShareLabel ==
    \A i, j \in 1..Len(keys) : i # j => keys[i].label # keys[j].label

\* C2: when an entry created by push_key(L) is still present, a second
\* push_key(L) leaves the buffer length and the order of the entries unchanged
\* and sets that entry's timestamp to now and its animation to 0.8.
C2_SecondPushRefreshes ==
    [][PushStep =>
        LET L == Head(rx).label
        IN  (\E i \in 1..Len(keys) : keys[i].pushed = L) =>
                /\ Len(keys') = Len(keys)
                /\ \A i \in 1..Len(keys) :
                      /\ keys'[i].label = keys[i].label
                      /\ keys'[i].icon = keys[i].icon
                      /\ keys'[i].pushed = keys[i].pushed
                /\ \E i \in 1..Len(keys) :
                      /\ keys[i].pushed = L
                      /\ keys'[i].time = now
                      /\ keys'[i].anim = AnimStart]_vars

\* the live entries a render pass at this instant starts from
Live == Retain(keys, now)

\* style width of an entry plus the padding, under the loaded configuration
BoxWidth(k) == StyleOf(config.styles, k.label).width + Padding

\* C3: after a render pass at time now every entry left in the buffer has
\* now - last touch < 1 second, every entry the pass expired had an age of at
\* least 1 second, and an entry younger than that is removed only when it
\* does not fit: the newest entry the pass dropped overflows the width next to
\* the entries kept.  So an entry touched at T is there after a render at
\* T + 0.9 s and gone after a render at T + 1.1 s.
C3_ExpiryAfterRender ==
    AfterRender =>
        /\ \A i \in 1..Len(keys) : Ms(now - keys[i].time) < ExpiryMs
        /\ \A i \in 1..Len(last_pass.expired) :
              /\ Ms(now - last_pass.expired[i].time) >= ExpiryMs
              /\ \A j \in 1..Len(keys) : keys[j] # last_pass.expired[i]
        /\ \A i \in 1..Len(last_pass.dropped) :
              Ms(now - last_pass.dropped[i].time) < ExpiryMs
        /\ last_pass.dropped # << >> =>
              SumWidth(keys, config.styles)
                + BoxWidth(last_pass.dropped[Len(last_pass.dropped)]) > last_ui_width

\* a pass keeps an entry touched 0.9 s ago and expires one touched 1.1 s ago
C3_Witness ==
    /\ AfterRender
    /\ \E i \in 1..Len(keys) : Ms(now - keys[i].time) = 900
    /\ \E i \in 1..Len(last_pass.expired) : Ms(now - last_pass.expired[i].time) = 1100

\* C4: after every render pass with available width W the sum over the
\* retained entries of (style width of the entry's category + padding 8) is
\* at most W.
C4_RetainedWidthWithinBudget ==
    AfterRender => SumWidth(keys, config.styles) <= last_ui_width

\* a pass keeps entries and drops one that would have overflowed the width
C4_Witness ==
    /\ AfterRender
    /\ keys # << >>
    /\ last_pass.dropped # << >>
    /\ SumWidth(keys, config.styles) <= last_ui_width
    /\ SumWidth(keys, config.styles)
         + BoxWidth(last_pass.dropped[Len(last_pass.dropped)]) > last_ui_width

\* C5 as stated: the entries a pass keeps are the most recently touched; no
\* dropped live entry has a later last-touch timestamp than a kept entry.
C5_KeepsMostRecentlyTouched ==
    AfterRender =>
        \A i \in 1..Len(last_pass.dropped) : \A j \in 1..Len(keys) :
            last_pass.dropped[i].time <= keys[j].time

\* C5: the entries a pass keeps are the most recently inserted; no dropped
\* live entry was inserted later than a kept entry.  A refresh sets the
\* timestamp and leaves the entry where it is, so it does not save an older
\* entry from being dropped.
C5_KeepsMostRecentlyInserted ==
    AfterRender =>
        \A i \in 1..Len(last_pass.dropped) : \A j \in 1..Len(keys) :
            last_pass.dropped[i].born <= keys[j].born

\* a pass drops an entry that was refreshed after the kept entry was touched
C5_Witness ==
    /\ AfterRender
    /\ \E i \in 1..Len(last_pass.dropped) : \E j \in 1..Len(keys) :
          /\ last_pass.dropped[i].born < keys[j].born
          /\ last_pass.dropped[i].time > keys[j].time

\* C6: with N distinct live entries that all have style width w and an
\* available width W, a render pass retains exactly min(N, floor(W / (w + 8)))
\* entries, and they are the last ones inserted.
C6_RetainsFloorOfWidth ==
    [][(/\ RenderStep
        /\ keys # << >>
        /\ \A i \in 1..Len(keys) :
              /\ Ms(now - keys[i].time) < ExpiryMs
              /\ BoxWidth(keys[i]) = BoxWidth(keys[1])
        /\ \A i, j \in 1..Len(keys) : i # j => keys[i].label # keys[j].label)
       => LET N     == Len(keys)
              W     == last_ui_width'
              fit   == W \div BoxWidth(keys[1])
              kept  == IF N < fit THEN N ELSE fit
          IN  /\ Len(keys') = kept
              /\ \A j \in 1..kept :
                    /\ keys'[j].label = keys[N - kept + j].label
                    /\ keys'[j].pushed = keys[N - kept + j].pushed]_vars

\* 20 entries of width 90 and W = 500 leave the 5 most recent
C6_Witness ==
    /\ AfterRender
    /\ last_ui_width = 500
    /\ Len(keys) = 5
    /\ Len(last_pass.dropped) = 15
    /\ \A i \in 1..Len(keys) : BoxWidth(keys[i]) = 98
    /\ keys[5].pushed = resolve_physical_key(Letters[20])

\* C7: of the events that carry one label and are received with no debounce
\* clear between them, exactly the first is dispatched to push_key; the first
\* one received after a clear is dispatched again.  dispatched counts the
\* push_key calls per label since the last clear, received holds the labels
\* received since then.
C7_FirstDispatchedSecondDropped ==
    /\ DOMAIN dispatched = received
    /\ \A label \in received : dispatched[label] = 1
    /\ recently_seen = received

\* a second event with a label is dropped, the entry of the first is there
C7_Witness ==
    /\ gate.seen
    /\ ~gate.admitted
    /\ Count(dispatched, gate.label) = 1
    /\ \E i \in 1..Len(keys) : keys[i].pushed = gate.label

\* C8: right after a render pass the buffer is the sequence selected for
\* rendering in that pass, the same entries in the same order.
C8_BufferEqualsDrawList ==
    AfterRender => keys = last_pass.draw_list

\* a pass draws an entry and drops another
C8_Witness ==
    /\ AfterRender
    /\ Len(last_pass.draw_list) >= 1
    /\ Len(last_pass.dropped) >= 1
    /\ last_pass.dropped[1].label # last_pass.draw_list[1].label

\* C9: an animation value stays within [0, 1]: it is 0.8 after an insert or a
\* refresh, a render pass that selects the entry adds 0.1 (in f32) while the
\* value is below 1.0, two such passes take a fresh entry to 1.0, and there
\* it stays.
C9_AnimationRange ==
    [][/\ \A i \in 1..Len(keys') : 0 <= keys'[i].anim /\ keys'[i].anim <= AnimFull
       /\ PushStep =>
             \E i \in 1..Len(keys') :
                 keys'[i].anim = AnimStart /\ keys'[i].time = now
       /\ RenderStep =>
             LET n == Len(Live)
                 m == Len(keys')
             IN  \A j \in 1..m :
                     keys'[j].anim = IF Live[n - m + j].anim < AnimFull
                                     THEN F32Add(Live[n - m + j].anim, AnimStep)
                                     ELSE AnimFull
       /\ F32Add(AnimStart, AnimStep) < AnimFull
       /\ F32Add(F32Add(AnimStart, AnimStep), AnimStep) = AnimFull]_vars

\* a pass has taken one entry to 1.0 and another to the step below it
C9_Witness ==
    /\ AfterRender
    /\ \E i \in 1..Len(keys) : keys[i].anim = AnimFull
    /\ \E i \in 1..Len(keys) : keys[i].anim = F32Add(AnimStart, AnimStep)

\* C10: a render pass changes the animation value only of the entries it
\* selects; push_key changes it only to 0.8; no other step changes the
\* entries at all.
C10_OnlySelectedEntriesAnimate ==
    [][/\ RenderStep =>
             LET n == Len(Live)
                 m == Len(keys')
             IN  /\ last_pass'.dropped = SubSeq(Live, 1, n - m)
                 /\ \A j \in 1..m :
                       keys'[j].anim \in {Live[n - m + j].anim,
                                          F32Add(Live[n - m + j].anim, AnimStep)}
       /\ PushStep =>
             /\ Len(keys') >= Len(keys)
             /\ \A i \in 1..Len(keys) : keys'[i].anim \in {keys[i].anim, AnimStart}
             /\ \A i \in (Len(keys) + 1)..Len(keys') : keys'[i].anim = AnimStart
       /\ (~RenderStep /\ ~PushStep) => keys' = keys]_vars

\* a pass drops an entry whose animation was still below 1.0
C10_Witness ==
    /\ AfterRender
    /\ keys # << >>
    /\ \E i \in 1..Len(last_pass.dropped) : last_pass.dropped[i].anim < AnimFull

\* the label of the InputEvent the listener sent last
LastSent == rx[Len(rx)]

\* the label of a key under the startup layout when Shift is held, by the
\* layout's own table
ShiftedLabel(key) ==
    IF layout = UnitedKingdom THEN resolve_uk_label(key) ELSE resolve_us_label(key)

\* C11: for every key-down of a key other than Shift the adapter sends exactly
\* one KeyPress; its label is the layout-resolved shifted label when the Shift
\* flag is true at that moment and the physical label when it is false.
C11_KeyDownLabel ==
    [][\A key \in AllKeys \ {"ShiftLeft", "ShiftRight"} :
          AdapterKeyPress(key) =>
              /\ rx' = Append(rx, [kind |-> "KeyPress",
                                   label |-> IF shift_down THEN ShiftedLabel(key)
                                             ELSE resolve_physical_key(key)])
              /\ shift_down' = shift_down]_vars

\* on the UK layout with Shift held, the key 3 has been sent as the pound sign
C11_Witness ==
    /\ rx # << >>
    /\ shift_down
    /\ layout = UnitedKingdom
    /\ LastSent = KeyPress(<<"U+00A3">>)

\* C12: every Shift key-down, left or right, sets the Shift flag and sends
\* KeyPress("⇧ shift") in the same step.
C12_ShiftDownSetsFlagAndSends ==
    [][\A key \in {"ShiftLeft", "ShiftRight"} :
          AdapterKeyPress(key) =>
              /\ shift_down' = TRUE
              /\ rx' = Append(rx, [kind |-> "KeyPress",
                                   label |-> <<"U+21E7", " ", "s", "h", "i", "f", "t">>])
              /\ UNCHANGED <<now, layout, os_repeat, app_vars>>]_vars

\* the flag is set and the Shift event is the one sent last
C12_Witness ==
    /\ shift_down
    /\ rx # << >>
    /\ LastSent = KeyPress(<<"U+21E7", " ", "s", "h", "i", "f", "t">>)

\* C13: only key-down and button-down send an InputEvent: a Shift key-up only
\* clears the Shift flag, and a key-up of another key, a mouse move or a
\* scroll changes neither the channel nor the flag.
C13_OtherTransitionsSendNothing ==
    [][/\ \A key \in AllKeys :
             AdapterKeyRelease(key) =>
                 /\ rx' = rx
                 /\ shift_down' = IF key \in {"ShiftLeft", "ShiftRight"}
                                  THEN FALSE ELSE shift_down
                 /\ UNCHANGED <<now, layout, os_repeat, app_vars>>
       /\ \A kind \in {"ButtonRelease", "MouseMove", "Wheel"} :
             AdapterIgnored(kind) => UNCHANGED vars
       /\ rx' # rx =>
             \/ \E key \in AllKeys : AdapterKeyPress(key)
             \/ \E button \in AllButtons : AdapterButtonPress(button)]_vars

\* Shift has been pressed and released: its event waits, the flag is clear
C13_Witness ==
    /\ ~shift_down
    /\ rx # << >>
    /\ LastSent = KeyPress(<<"U+21E7", " ", "s", "h", "i", "f", "t">>)

\* C14: under any interleaving of the listener and the application loop a
\* step of the listener appends at most one InputEvent at the back of the
\* channel, and the loop receives the event at the front and removes it: each
\* event is received at most once, in the order of sending.
C14_ChannelIsFifo ==
    [][\/ rx' = rx
       \/ /\ Len(rx') = Len(rx) + 1
          /\ SubSeq(rx', 1, Len(rx)) = rx
          /\ UNCHANGED app_vars
       \/ /\ rx # << >>
          /\ rx' = SubSeq(rx, 2, Len(rx))
          /\ gate'.seen
          /\ gate'.label = rx[1].label
          /\ UNCHANGED <<shift_down, layout>>]_vars

\* in the middle of a drain the loop has received the first of two different
\* events and the second still waits
C14_Witness ==
    /\ pc = "drain"
    /\ gate.seen
    /\ rx # << >>
    /\ gate.label # rx[1].label

\* C15: for every key k and every id n, resolve_key_label(k, Other(n)) is
\* resolve_key_label(k, UnitedStates), and it is a string for every key.
C15_OtherLayoutBehavesAsUs ==
    /\ layout.tag = "Other" =>
          \A key \in AllKeys :
              /\ resolve_key_label(key, layout) = resolve_us_label(key)
              /\ resolve_key_label(key, layout) = resolve_key_label(key, UnitedStates)
    /\ \A key \in AllKeys : resolve_key_label(key, layout) \in Seq(STRING)
    /\ (rx # << >> /\ LastSent.kind = "KeyPress") => LastSent.label \in Seq(STRING)

\* under the layout of language id 0x040C, Shift and 2 have been sent as "@",
\* the US label (the UK table gives the double quote)
C15_Witness ==
    /\ layout = Other(1036)
    /\ rx # << >>
    /\ LastSent = KeyPress(<<"@">>)

\* the labels of a state: those that wait in the channel and those push_key
\* was called with
LabelsAtHand ==
    {rx[i].label : i \in 1..Len(rx)} \cup {keys[i].pushed : i \in 1..Len(keys)}

\* C16: normalisation is idempotent: normalising a normalised key label or
\* mouse label changes nothing, and a label that is not in the table is
\* returned unchanged.
C16_NormalizationIdempotent ==
    \A x \in LabelsAtHand :
        /\ normalize_key_label(normalize_key_label(x)) = normalize_key_label(x)
        /\ normalize_mouse_label(normalize_mouse_label(x)) = normalize_mouse_label(x)
        /\ x \notin KeyTableLabels => normalize_key_label(x) = x
        /\ x \notin MouseTableLabels => normalize_mouse_label(x) = x

\* "Return" has been pushed and normalised to the enter icon and label
C16_Witness ==
    /\ keys # << >>
    /\ keys[1].pushed = <<"R", "e", "t", "u", "r", "n">>
    /\ keys[1].icon = <<"U+F0311">>
    /\ keys[1].label = <<"e", "n", "t", "e", "r">>

\* the labels the classifier meets in a state: those at hand and those the
\* entries of the buffer and of the draw list carry
LabelsClassified ==
    LabelsAtHand
    \cup {keys[i].label : i \in 1..Len(keys)}
    \cup {last_pass.draw_list[i].label : i \in 1..Len(last_pass.draw_list)}

\* C17: category_for_key is total: every non-empty label gets exactly one of
\* the 13 categories; "f0" is Unknown (0 is outside 1..24), "f12" is
\* Function, "123" is Numeric and "Ab1" is Unknown.
C17_ClassifierTotal ==
    /\ Cardinality(KeyCategory) = 13
    /\ \A x \in LabelsClassified :
        /\ x # << >> => category_for_key(x) \in KeyCategory
        /\ x = <<"f", "0">> => category_for_key(x) = "Unknown"
        /\ x = <<"f", "1", "2">> => category_for_key(x) = "Function"
        /\ x = <<"1", "2", "3">> => category_for_key(x) = "Numeric"
        /\ x = <<"A", "b", "1">> => category_for_key(x) = "Unknown"

\* "f0" was pushed and the pass has drawn its entry with the width of the
\* Unknown style
C17_Witness ==
    /\ pc = "repaint"
    /\ Len(last_pass.draw_list) = 1
    /\ last_pass.draw_list[1].pushed = <<"f", "0">>
    /\ last_pass.total_width = fallback_styles["Unknown"].width + Padding

\* the rules of category_for_key in the order the match tries them
RuleOrder ==
    <<"Mouse", "Escape", "Modifier", "Editor", "Navigation", "Scrollable", "Space",
      "Symbol", "Function", "AltFunction", "Numeric", "Normal", "Unknown">>

\* does rule i match the lower-case label k
RuleMatches(i, k) ==
    CASE i = 1 -> k \in MouseLabels
      [] i = 2 -> k \in EscapeLabels
      [] i = 3 -> k \in ModifierLabels
      [] i = 4 -> k \in EditorLabels
      [] i = 5 -> k \in NavigationLabels
      [] i = 6 -> k \in ScrollableLabels
      [] i = 7 -> k \in SpaceLabels
      [] i = 8 -> k \in SymbolLabels
      [] i = 9 -> /\ Len(k) > 1
                  /\ k[1] = "f"
                  /\ parse_u8(SliceFrom(k, 1)) \in 1..24
      [] i = 10 -> \E w \in AltFunctionKeywords : contains(k, w)
      [] i = 11 -> \A j \in 1..Len(k) : is_ascii_digit(k[j])
      [] i = 12 -> \A j \in 1..Len(k) : is_ascii_alphabetic(k[j])
      [] OTHER -> TRUE

FirstRule(k) == CHOOSE i \in 1..13 : RuleMatches(i, k) /\ \A j \in 1..(i - 1) : ~RuleMatches(j, k)

\* C18: category_for_key is case-insensitive and returns the category of the
\* first rule that matches, in the order Mouse, Escape, Modifier, Editor,
\* Navigation, Scrollable, Space, Symbol, Function, AltFunction, Numeric,
\* Normal, Unknown; "home" in any letter case is Scrollable, not AltFunction.
C18_FirstMatchingRule ==
    \A x \in LabelsClassified :
        /\ category_for_key(x) = RuleOrder[FirstRule(to_ascii_lowercase(x))]
        /\ category_for_key(x) = category_for_key(to_ascii_lowercase(x))
        /\ to_ascii_lowercase(x) = <<"h", "o", "m", "e">> => category_for_key(x) = "Scrollable"

\* "hOmE" was pushed and the pass has drawn its entry with the width of the
\* Scrollable style
C18_Witness ==
    /\ pc = "repaint"
    /\ Len(last_pass.draw_list) = 1
    /\ last_pass.draw_list[1].pushed = <<"h", "O", "m", "E">>
    /\ last_pass.total_width = fallback_styles["Scrollable"].width + Padding

\* C19: a hot reload that replaces the styles leaves the Display Buffer
\* (entries, order, timestamps, animation values) and the Debounce Set as
\* they are; the new styles act only in the render passes that follow, whose
\* widths are computed under the styles then loaded.
C19_ReloadLeavesBufferAlone ==
    [][/\ config' # config =>
            /\ keys' = keys
            /\ recently_seen' = recently_seen
            /\ last_clear' = last_clear
            /\ last_pass' = last_pass
       /\ RenderStep =>
            /\ config' = config
            /\ last_pass'.total_width = SumWidth(last_pass'.draw_list, config.styles)
            /\ SumWidth(keys', config.styles) <= last_ui_width']_vars

\* the wide styles are loaded over a letter that an earlier pass animated
\* and kept in a width where the wide styles leave no room for it: the
\* reload came after that pass and has left the entry in the buffer
C19_Witness ==
    /\ pc = "drain"
    /\ config = ConfigLoad(WideFile)
    /\ last_ui_width = 100
    /\ Len(keys) = 1
    /\ category_for_key(keys[1].label) = "Normal"
    /\ keys[1].anim > AnimStart
    /\ config.styles["Normal"].width + Padding > last_ui_width

\* C20: timeout_ms never influences the buffer: under either timeout a
\* push and a render pass leave the buffer that they leave under the default
\* configuration, from the same buffer at the same instant, so two runs that
\* differ only in timeout_ms have the same buffer after every step; and a
\* pass expires an entry at an age of 1 second whatever the timeout is.
C20_TimeoutNeverRead ==
    [][/\ config' = config
       /\ pc' = "repaint" /\ pc = "idle" =>
            /\ keys' = render(keys, ConfigLoad(NoFile).styles, last_ui_width', now).keys
            /\ \A j \in 1..Len(keys') : Ms(now - keys'[j].time) < 1000
            /\ \A i \in 1..Len(keys) :
                  Ms(now - keys[i].time) >= 1000 =>
                      \E j \in 1..Len(last_pass'.expired) : last_pass'.expired[j] = keys[i]
            /\ \A i \in 1..Len(last_pass'.expired) :
                  Ms(now - last_pass'.expired[i].time) >= 1000
       /\ pc' = "idle" /\ pc = "idle" /\ keys' # keys =>
            \E event \in BufferEvents :
                keys' = push_key(keys, event.label, event.kind = "MouseClick", now)
       /\ pc = "repaint" => keys' = keys]_vars

\* under a timeout of 500 ms a pass has kept an entry that is older than
\* the timeout and younger than 1 second
C20_Witness ==
    /\ AfterRender
    /\ config.timeout_ms = 500
    /\ \E i \in 1..Len(keys) :
          /\ Ms(now - keys[i].time) > config.timeout_ms
          /\ Ms(now - keys[i].time) < 1000

\* the files whose load gives the configuration of the state
LoadedFiles == {f \in ConfigFiles : config = ConfigLoad(f)}

\* the one entry a pass over a buffer of one entry has measured: drawn when
\* its box fits the width, dropped when it does not
Measured == last_pass.draw_list \o last_pass.dropped

\* C21: when the configuration does not define a style for a category (the
\* [styles] tables that Config::load reads hold no table for it), every
\* entry of that category is measured and rendered with the fixed default
\* style (width 90, height 90, icon size 0, text size 24, bg #3c3c3c,
\* fg #ffffff): the style the pass looks up for the entry is the fixed one,
\* and a drawn entry takes 90 plus the padding of the width.
C21_MissingCategoryUsesFixedDefault ==
    AfterRender =>
        \A f \in LoadedFiles : \A i \in 1..Len(Measured) :
            LET category == category_for_key(Measured[i].label)
            IN  category \notin DOMAIN f.styles =>
                    /\ StyleOf(config.styles, Measured[i].label)
                         = MkStyle(90, 90, 0, 24, "#3c3c3c", "#ffffff")
                    /\ Len(last_pass.draw_list) = 1 =>
                           last_pass.total_width = 90 + Padding

\* C22: if installing the OS hook fails, the listener reports the failure
\* exactly once, never tries again and never sends an event afterwards,
\* while the application loop goes on: after the failure a frame begins and
\* a render pass ends again and again.
C22_FailedHookIsSilent ==
    /\ [](/\ listener.reported <= 1
          /\ listener.reported = 1 <=> listener.hook = "failed"
          /\ listener.hook = "failed" => rx = << >> /\ keys = << >>)
    /\ [][listener.hook = "failed" =>
              /\ listener' = listener
              /\ rx' = rx]_vars
    /\ []<>(listener.hook = "failed" => pc = "drain")
    /\ []<>(listener.hook = "failed" => AfterRender)

\* the hook has failed, time has passed and a pass has ended
C22_Witness ==
    /\ listener.hook = "failed"
    /\ listener.reported = 1
    /\ AfterRender
    /\ now > 0
    /\ last_ui_width > 0

\* C23: push_key never drops the label it is given: it appends an entry for
\* it or refreshes the entry that carries it; a label whose text is empty
\* after normalisation and splitting is appended like any other, and the
\* pass that follows counts its box in the width and draws it.
C23_EmptyTextOccupiesSlot ==
    [][/\ PushStep =>
            LET label == Head(rx).label
                n     == Len(keys)
            IN  \/ /\ Len(keys') = n + 1
                   /\ SubSeq(keys', 1, n) = keys
                   /\ keys'[n + 1].pushed = label
                   /\ keys'[n + 1].time = now
                   /\ keys'[n + 1].anim = AnimStart
                \/ \E i \in 1..n :
                      /\ keys[i].label = label
                      /\ keys' = [keys EXCEPT ![i].time = now, ![i].anim = AnimStart]
       /\ (RenderStep /\ Len(keys) = 1 /\ keys[1].label = << >>
              /\ Ms(now - keys[1].time) < 1000) =>
            /\ Len(keys') = 1
            /\ Len(last_pass'.draw_list) = 1
            /\ last_pass'.draw_list[1].pushed = keys[1].pushed
            /\ last_pass'.total_width = config.styles["Numeric"].width + Padding
            /\ last_pass'.total_width > 0]_vars

\* a label of one space was pushed; the pass has drawn its entry, which has
\* no icon and no text, in a box of its own
C23_Witness ==
    /\ AfterRender
    /\ Len(keys) = 1
    /\ Len(last_pass.draw_list) = 1
    /\ last_pass.draw_list[1].pushed = <<" ">>
    /\ last_pass.draw_list[1].label = << >>
    /\ last_pass.draw_list[1].icon = << >>
    /\ last_pass.total_width = 90 + Padding

\* C24: a recorded label is suppressed for at most 250 ms after the last
\* clear of the Debounce Set: an event that arrives more than 250 ms after
\* that clear is admitted.  The event a frame has just received arrived at
\* the instant now, and last_clear is the clear before it.
C24_AdmittedAfterWindow ==
    (pc = "drain" /\ gate.seen /\ Ms(now - last_clear) > 250) => gate.admitted

\* C25: an event the debounce gate drops, its label being in the Debounce
\* Set, leaves the Display Buffer as it is: no entry added, no timestamp
\* refreshed, no animation reset; and it does not by itself ask for an
\* immediate repaint: a frame that has only dropped events asks for the
\* repaint after 33 ms.
C25_DroppedEventChangesNothing ==
    [][/\ (pc = "drain" /\ rx # << >> /\ Head(rx).label \in recently_seen
              /\ Len(rx') < Len(rx)) =>
            /\ keys' = keys
            /\ recently_seen' = recently_seen
            /\ needs_repaint' = needs_repaint
            /\ pc' = "drain"
       /\ (pc \in {"drain", "debounce", "render"} /\ needs_repaint) =>
            \E i \in 1..Len(keys) : keys[i].time = now
       /\ (pc = "repaint" /\ pc' = "idle") =>
            (repaint' = "immediately" <=> needs_repaint)]_vars

\* the gate has just dropped an event whose entry was touched earlier; the
\* entry is as it was and the frame has asked for no repaint so far
C25_Witness ==
    /\ pc = "drain"
    /\ gate.seen
    /\ ~gate.admitted
    /\ ~needs_repaint
    /\ \E i \in 1..Len(keys) :
          /\ keys[i].pushed = gate.label
          /\ keys[i].time < now
          /\ keys[i].anim > AnimStart

\* the instant of the last touch among the entries of a buffer that is not
\* empty: no event has been admitted since
LastTouch == CHOOSE t \in {keys[i].time : i \in 1..Len(keys)} :
                \A i \in 1..Len(keys) : keys[i].time <= t

\* C26: if no event is admitted after time T, the buffer is empty after
\* every render pass at T + 1 s or later and stays empty until the next
\* admitted event: a pass that finds the last touch 1 s old or older
\* empties the buffer, only an admitted event sets a timestamp, and only an
\* admitted event puts an entry into an empty buffer.
C26_BufferDrains ==
    [][/\ (RenderStep /\ keys # << >> /\ Ms(now - LastTouch) >= 1000) => keys' = << >>
       /\ ~PushStep =>
            /\ \A j \in 1..Len(keys') : \E i \in 1..Len(keys) : keys'[j].time = keys[i].time
            /\ keys = << >> => keys' = << >>
       /\ \A j \in 1..Len(keys') : keys'[j].time <= now']_vars

\* a pass at 1.2 s has expired the only entry, touched at 0 s, and has left
\* the buffer empty
C26_Witness ==
    /\ AfterRender
    /\ keys = << >>
    /\ Len(last_pass.expired) = 1
    /\ last_pass.expired[1].time = 0
    /\ Ms(now) >= 1000

\* an entry without its animation value, which a pass changes
Still(k) == [k EXCEPT !.anim = 0]

\* an entry of the held key: pushed under a label the callback sends for the
\* key, with or without Shift
OfHeldKey(k) ==
    IF os_repeat.key \in ShiftKeys
    THEN k.pushed = <<"U+21E7", " ", "s", "h", "i", "f", "t">>
    ELSE \/ k.pushed = resolve_physical_key(os_repeat.key)
         \/ k.pushed = resolve_key_label(os_repeat.key, layout)

\* where the entries of the held key stand in the buffer
HeldEntries == {i \in 1..Len(keys) : OfHeldKey(keys[i])}

\* the entry of the held key that was inserted last
NewestHeld == CHOOSE i \in HeldEntries : \A j \in HeldEntries : j <= i

PushedUnshifted ==
    \A i \in HeldEntries :
        os_repeat.key \notin ShiftKeys =>
            keys[i].pushed = resolve_physical_key(os_repeat.key)

\* a frame has begun at every instant of the clock so far
FramesKeepPace == os_repeat.frames # "late"

C28_FlagTracksHeldShift == shift_down <=> held # {}

\* C29: the entries a render pass retains are a contiguous suffix of the
\* non-expired buffer in insertion order: the longest suffix that fits the
\* width.  The scan stops at the first entry that does not fit, so no entry
\* older than a dropped one is kept even when it is narrow enough to fit, and
\* when the newest entry alone does not fit the buffer is emptied.
C29_RetainedIsFittingSuffix ==
    [][RenderStep =>
         LET n == Len(Live)
             m == Len(keys')
             W == last_ui_width'
         IN  /\ m <= n
             /\ \A j \in 1..m : Still(keys'[j]) = Still(Live[n - m + j])
             /\ SumWidth(keys', config.styles) <= W
             /\ m < n => SumWidth(keys', config.styles) + BoxWidth(Live[n - m]) > W
             /\ (n > 0 /\ BoxWidth(Live[n]) > W) => keys' = << >>]_vars

\* a pass drops a wide entry and, with it, an older live entry that would
\* have fitted next to the entries kept
C29_Witness ==
    /\ AfterRender
    /\ keys # << >>
    /\ Len(last_pass.dropped) >= 2
    /\ SumWidth(keys, config.styles)
         + BoxWidth(last_pass.dropped[Len(last_pass.dropped)]) > last_ui_width
    /\ \E i \in 1..(Len(last_pass.dropped) - 1) :
           SumWidth(keys, config.styles) + BoxWidth(last_pass.dropped[i]) <= last_ui_width

\* C30: when push_key creates an entry, the stored icon is the part of the
\* normalized label before its first space (empty when there is no space) and
\* the stored text is the remainder; the text is upper-cased only for a
\* function-key label (f followed by an integer), and the text of every other
\* label, also of one that begins with the letter f, keeps its letter case.
C30_TextUpperOnlyForFunctionKeys ==
    [][(PushStep /\ Len(keys') = Len(keys) + 1) =>
         LET event == Head(rx)
             raw   == IF event.kind # "MouseClick"
                      THEN normalize_key_label(event.label)
                      ELSE normalize_mouse_label(event.label)
             parts == SplitIconText(StripPrefix(raw))
             fkey  == /\ Len(parts.text) >= 2
                      /\ parts.text[1] \in {"f", "F"}
                      /\ \A i \in 2..Len(parts.text) : is_ascii_digit(parts.text[i])
             entry == keys'[Len(keys')]
         IN  /\ entry.icon = parts.icon
             /\ entry.label = IF fkey THEN to_uppercase(parts.text) ELSE parts.text]_vars

====
